---- MODULE Spec2Model ----
(***************************************************************************)
(* Verification model of platypus-qa.                                      *)
(*                                                                         *)
(*   SpecQA    QAHandler.answer: the parser loop, the SIGALRM-guarded      *)
(*             wrapper and the score-ordered evaluation of candidates.     *)
(*   SpecReq   two requests served concurrently by the shared              *)
(*             PPPRequestHandler and WikidataKnowledgeBase singletons.     *)
(*   SpecDis   find_process, the disambiguation tree builder.              *)
(*   SpecType  the type algebra (Type, _AtomicType, _TupleType).           *)
(***************************************************************************)
EXTENDS Integers, Sequences, FiniteSets, TLC

VARIABLES
    \* ---- QAHandler (qa.py) ----
    all_interpretations,  \* QAHandler._all_interpretations
    parsers,              \* QAHandler._parsers: the number of parsers
    language_code,        \* answer's language_code once cleaned
    pc,                   \* position of the main thread in answer
    parser_idx,           \* index of the parser of the current loop iteration
    alarm,                \* TRUE while a SIGALRM armed by signal.alarm is pending
    analysis,             \* the terms GrammaticalAnalyzer.analyze produced (unsorted)
    parsed_terms,         \* _do_with_terms: the sorted list
    i,                    \* _do_with_terms: loop index (1-based)
    interpretations,      \* _do_with_terms: the list being built
    max_score,            \* _do_with_terms: max_score
    consumed,             \* history: the terms whose future.result() was called, in order
    dwt,                  \* history: how the last _do_with_terms call ended
    parser_results,       \* history: what the wrapper returned for each parser so far
    timed_out,            \* history: parsers whose wrapped call was interrupted by SIGALRM
    outcome,              \* "running", "returned" or "raised": how answer ended
    retval,               \* the list answer returned
    exc,                  \* the exception answer raised, or the one raised after it
    \* ---- PPPRequestHandler / WikidataKnowledgeBase shared by requests ----
    h_request,            \* PPPRequestHandler._request
    h_language,           \* PPPRequestHandler._language
    property_for_iri,     \* WikidataKnowledgeBase._property_for_iri (class attribute)
    relations_for_label,  \* WikidataKnowledgeBase._relations_for_label (class attribute)
    req,                  \* per request thread: its program counter and locals
    \* ---- find_process (disambiguation.py) ----
    full_terms,           \* the argument of find_process
    tree,                 \* its result
    dis_pc,               \* "input" while the argument is built, "done" once applied
    \* ---- type algebra (formula.py) ----
    ta, tb, tc,           \* three Type values
    ty_steps,             \* number of operations applied to them
    \* ---- formulas (formula.py) ----
    type_results,         \* the results of the Type operations on the types of the terms
    fa, fb,               \* two Formula values
    fs,                   \* a Select value
    fm_steps,             \* number of operations applied to them
    \* ---- order operators (formula.py) ----
    order_left,           \* the left operand given to the constructor
    order_right,          \* the right operand
    order_formula,        \* what the constructor gave: a formula or ValueError
    order_pc,             \* "operands" before the constructor is called, "constructed" after
    \* ---- KnowledgeBase.build_interpretation (model.py) ----
    kb_term,              \* the term to evaluate
    kb_evaluated,         \* the term evaluate_term was called with
    kb_tuples,            \* what evaluate_term does: the tuples it returns, or an exception
    kb_interpretation,    \* the interpretation build_interpretation returned
    kb_exc,               \* the exception build_interpretation raised
    kb_pc,                \* position in build_interpretation
    \* ---- WikidataKnowledgeBase.relations_from_labels (wikidata.py) ----
    fz_relations_for_label,\* _relations_for_label[language_code]: the relations of each reference label
    fz_input,             \* the labels given to relations_from_labels
    fz_labels,            \* relations_from_labels: labels
    fz_distance,          \* relations_from_labels: distance
    fz_result,            \* the relations returned
    fz_pc,                \* position in relations_from_labels
    \* ---- LazyThreadPoolExecutor.map_first_with_result (qa.py, request_handler.py) ----
    pool_fn,              \* the function called
    pool_tasks,           \* what each task does, in submission order
    futures,              \* the futures fs, in submission order
    pool_pc,              \* position of the calling thread
    pool_k,               \* index of the future the caller waits for
    pool_result,          \* what map_first_with_result returned
    finished,             \* history: the tasks in the order in which they finished
    \* ---- GrammaticalAnalyzer._token_with_dependency_to_trees (grammatical_analyzer.py) ----
    sentence,             \* the dependency tree of the parser
    trees,                \* the trees returned
    tree_pc               \* position

qa_vars == <<all_interpretations, parsers, language_code, pc, parser_idx, alarm,
             analysis, parsed_terms, i, interpretations, max_score, consumed, dwt,
             parser_results, timed_out, outcome, retval, exc>>
req_vars == <<h_request, h_language, property_for_iri, relations_for_label, req>>
dis_vars == <<full_terms, tree, dis_pc>>
type_vars == <<ta, tb, tc, ty_steps>>
formula_vars == <<type_results, fa, fb, fs, fm_steps>>
order_vars == <<order_left, order_right, order_formula, order_pc>>
kb_vars == <<kb_term, kb_evaluated, kb_tuples, kb_interpretation, kb_exc, kb_pc>>
fuzzy_vars == <<fz_relations_for_label, fz_input, fz_labels, fz_distance, fz_result, fz_pc>>
pool_vars == <<pool_fn, pool_tasks, futures, pool_pc, pool_k, pool_result, finished>>
tree_vars == <<sentence, trees, tree_pc>>
vars == <<qa_vars, req_vars, dis_vars, type_vars, formula_vars, order_vars, kb_vars,
          fuzzy_vars, pool_vars, tree_vars>>

(***************************************************************************)
(* Bounds of the model.                                                    *)
(***************************************************************************)
MaxParsers == 2
MaxTerms == 3
MaxScore == 1

Languages == {"en", "fr"}

Max(a, b) == IF a >= b THEN a ELSE b

(***************************************************************************)
(* QAHandler                                                               *)
(***************************************************************************)
\* What knowledge_base.evaluate_term does for a term: a non-empty list of
\* tuples, an empty list, or an EvaluationError.
EvaluationResults == {"nonempty", "empty", "error"}

\* A term the analyzer produced: Term.score and the result of its evaluation.
AnalyzedTerms == [score : 0..MaxScore, res : EvaluationResults]

AnalysisOutputs == UNION {[1..n -> AnalyzedTerms] : n \in 0..MaxTerms}

\* The terms with their position in the analyzer's output as identity.
WithIds(terms) ==
    [k \in 1..Len(terms) |-> [id |-> k, score |-> terms[k].score, res |-> terms[k].res]]

\* A faulty variant of the sort: the list is left in the analyzer's order.
sorted_by_score_unsorted(terms) == terms

\* sorted(parsed_terms, key=lambda term: -term.score): a stable sort.
RECURSIVE sorted_by_score(_)
sorted_by_score(terms) ==
    IF terms = <<>> THEN <<>>
    ELSE LET n == Len(terms)
             rest == sorted_by_score(SubSeq(terms, 1, n - 1))
             t == terms[n]
             k == Cardinality({j \in 1..Len(rest) : rest[j].score >= t.score})
         IN SubSeq(rest, 1, k) \o <<t>> \o SubSeq(rest, k + 1, Len(rest))

QAIdle ==
    /\ all_interpretations = FALSE
    /\ parsers = 0
    /\ language_code = "und"
    /\ pc = "idle"
    /\ parser_idx = 0
    /\ alarm = FALSE
    /\ analysis = <<>>
    /\ parsed_terms = <<>>
    /\ i = 0
    /\ interpretations = <<>>
    /\ max_score = 0
    /\ consumed = <<>>
    /\ dwt = "none"
    /\ parser_results = <<>>
    /\ timed_out = {}
    /\ outcome = "idle"
    /\ retval = <<>>
    /\ exc = "none"

\* QAHandler.__init__ followed by the call of answer.
QAInit ==
    /\ all_interpretations \in BOOLEAN
    /\ parsers \in 1..MaxParsers
    /\ language_code = "und"
    /\ pc = "clean_language_code"
    /\ parser_idx = 1
    /\ alarm = FALSE
    /\ analysis = <<>>
    /\ parsed_terms = <<>>
    /\ i = 0
    /\ interpretations = <<>>
    /\ max_score = 0
    /\ consumed = <<>>
    /\ dwt = "none"
    /\ parser_results = <<>>
    /\ timed_out = {}
    /\ outcome = "running"
    /\ retval = <<>>
    /\ exc = "none"

\* answer, line 102: language_code = self._clean_language_code(...), which
\* runs langdetect.detect outside any try block when the code is "und".
clean_language_code ==
    /\ pc = "clean_language_code"
    /\ outcome = "running"
    /\ \E given \in Languages \cup {"und"} :
       \E detected \in Languages \cup {"LangDetectException"} :
          IF given = "und" /\ detected = "LangDetectException"
          THEN /\ outcome' = "raised"
               /\ exc' = "LangDetectException"
               /\ pc' = "done"
               /\ UNCHANGED language_code
          ELSE /\ language_code' = (IF given = "und" THEN detected ELSE given)
               /\ pc' = "for_parser"
               /\ UNCHANGED <<outcome, exc>>
    /\ UNCHANGED <<all_interpretations, parsers, parser_idx, alarm, analysis,
                   parsed_terms, i, interpretations, max_score, consumed, dwt,
                   parser_results, timed_out, retval>>
    /\ UNCHANGED <<req_vars, dis_vars, type_vars, formula_vars,
                   order_vars, kb_vars, fuzzy_vars, pool_vars, tree_vars>>

\* answer, lines 104-108: what the loop does with the list the wrapper returned.
AnswerContinues(results) ==
    /\ parser_results' = Append(parser_results, results)
    /\ IF results # <<>>
       THEN /\ outcome' = "returned"
            /\ retval' = results
            /\ pc' = "done"
            /\ UNCHANGED parser_idx
       ELSE /\ parser_idx' = parser_idx + 1
            /\ pc' = "for_parser"
            /\ UNCHANGED <<outcome, retval>>

\* answer, lines 104 and 108: the loop is over, return [].
answer_return_empty ==
    /\ pc = "for_parser"
    /\ outcome = "running"
    /\ parser_idx > parsers
    /\ outcome' = "returned"
    /\ retval' = <<>>
    /\ pc' = "done"
    /\ UNCHANGED <<all_interpretations, parsers, language_code, parser_idx, alarm,
                   analysis, parsed_terms, i, interpretations, max_score, consumed,
                   dwt, parser_results, timed_out, exc>>
    /\ UNCHANGED <<req_vars, dis_vars, type_vars, formula_vars,
                   order_vars, kb_vars, fuzzy_vars, pool_vars, tree_vars>>

\* func_wrapper, lines 45-47: enter the try block and arm the alarm.
func_wrapper_enter ==
    /\ pc = "for_parser"
    /\ outcome = "running"
    /\ parser_idx <= parsers
    /\ alarm' = TRUE
    /\ pc' = "func"
    \* a new call: the locals of the previous one are gone
    /\ analysis' = <<>>
    /\ parsed_terms' = <<>>
    /\ i' = 0
    /\ interpretations' = <<>>
    /\ max_score' = 0
    /\ consumed' = <<>>
    /\ dwt' = "none"
    /\ UNCHANGED <<all_interpretations, parsers, language_code, parser_idx,
                   parser_results, timed_out, outcome, retval, exc>>
    /\ UNCHANGED <<req_vars, dis_vars, type_vars, formula_vars,
                   order_vars, kb_vars, fuzzy_vars, pool_vars, tree_vars>>

\* _do_with_grammatical_analysis, lines 118-119: language_code is not in
\* parser.supported_languages (an input of the model, like the parser's
\* behaviour); func returns [] and the wrapper disarms the alarm (lines 49-50).
unsupported_language ==
    /\ pc = "func"
    /\ alarm' = FALSE
    /\ AnswerContinues(<<>>)
    /\ UNCHANGED <<all_interpretations, parsers, language_code, analysis, parsed_terms,
                   i, interpretations, max_score, consumed, dwt, timed_out, exc>>
    /\ UNCHANGED <<req_vars, dis_vars, type_vars, formula_vars,
                   order_vars, kb_vars, fuzzy_vars, pool_vars, tree_vars>>

\* GrammaticalAnalyzer(...).analyze(question) raises (a parser or knowledge
\* base failure): the wrapper's "except Exception" returns [] (lines 56-58)
\* without reaching signal.alarm(0).
analyze_raises ==
    /\ pc = "func"
    /\ AnswerContinues(<<>>)
    /\ UNCHANGED <<all_interpretations, parsers, language_code, alarm, analysis,
                   parsed_terms, i, interpretations, max_score, consumed, dwt,
                   timed_out, exc>>
    /\ UNCHANGED <<req_vars, dis_vars, type_vars, formula_vars,
                   order_vars, kb_vars, fuzzy_vars, pool_vars, tree_vars>>

\* analyze returns its terms and _do_with_terms starts: lines 125-130.
analyze ==
    /\ pc = "func"
    /\ \E terms \in AnalysisOutputs :
          /\ analysis' = WithIds(terms)
          /\ parsed_terms' = sorted_by_score(WithIds(terms))
    /\ i' = 1
    /\ interpretations' = <<>>
    /\ max_score' = 0
    /\ consumed' = <<>>
    /\ dwt' = "running"
    /\ pc' = "do_with_terms"
    /\ UNCHANGED <<all_interpretations, parsers, language_code, parser_idx, alarm,
                   parser_results, timed_out, outcome, retval, exc>>
    /\ UNCHANGED <<req_vars, dis_vars, type_vars, formula_vars,
                   order_vars, kb_vars, fuzzy_vars, pool_vars, tree_vars>>

\* _do_with_terms returns interpretations (line 134 or 141); func returns it
\* and the wrapper disarms the alarm (lines 49-50).
DoWithTermsReturns ==
    /\ dwt' = "returned"
    /\ alarm' = FALSE
    /\ AnswerContinues(interpretations)
    /\ UNCHANGED <<i, interpretations, max_score, consumed>>

\* One iteration of the loop of _do_with_terms, lines 131-141.
do_with_terms ==
    /\ pc = "do_with_terms"
    /\ IF i > Len(parsed_terms)
       THEN DoWithTermsReturns
       ELSE LET term == parsed_terms[i] IN
            IF term.score < max_score /\ ~all_interpretations
            THEN DoWithTermsReturns
            ELSE /\ consumed' = Append(consumed, term)
                 /\ IF term.res = "error"
                    THEN \* futures[i].result() re-raises; nothing catches it
                         \* before the wrapper's "except Exception"
                         /\ dwt' = "raised"
                         /\ AnswerContinues(<<>>)
                         /\ UNCHANGED <<i, interpretations, max_score, alarm>>
                    ELSE /\ i' = i + 1
                         /\ IF term.res = "nonempty"
                            THEN /\ max_score' = term.score
                                 /\ interpretations' = Append(interpretations, term)
                            ELSE UNCHANGED <<max_score, interpretations>>
                         /\ UNCHANGED <<dwt, alarm, pc, parser_idx, parser_results,
                                        outcome, retval>>
    /\ UNCHANGED <<all_interpretations, parsers, language_code, analysis, parsed_terms,
                   timed_out, exc>>
    /\ UNCHANGED <<req_vars, dis_vars, type_vars, formula_vars,
                   order_vars, kb_vars, fuzzy_vars, pool_vars, tree_vars>>

\* SIGALRM is delivered to the main thread while it is inside the wrapper's
\* try block: raise_timeout_exception raises, "except TimeoutError" returns [].
timeout_in_wrapper ==
    /\ alarm
    /\ pc \in {"func", "do_with_terms"}
    /\ alarm' = FALSE
    /\ timed_out' = timed_out \cup {parser_idx}
    /\ AnswerContinues(<<>>)
    \* the exception unwinds the frame of _do_with_terms
    /\ dwt' = (IF pc = "do_with_terms" THEN "interrupted" ELSE dwt)
    /\ analysis' = <<>>
    /\ parsed_terms' = <<>>
    /\ i' = 0
    /\ interpretations' = <<>>
    /\ max_score' = 0
    /\ consumed' = <<>>
    /\ UNCHANGED <<all_interpretations, parsers, language_code, exc>>
    /\ UNCHANGED <<req_vars, dis_vars, type_vars, formula_vars,
                   order_vars, kb_vars, fuzzy_vars, pool_vars, tree_vars>>

\* SIGALRM is delivered while the main thread is outside the try block: an
\* alarm the wrapper left armed on its "except Exception" path.  The
\* TimeoutError is raised wherever the main thread is: in answer's loop, or in
\* the caller's code once answer is over.
timeout_outside_wrapper ==
    /\ alarm
    /\ pc \in {"for_parser", "done"}
    /\ alarm' = FALSE
    /\ exc' = "TimeoutError"
    /\ IF outcome = "running"
       THEN /\ outcome' = "raised"
            /\ pc' = "done"
       ELSE UNCHANGED <<outcome, pc>>
    /\ UNCHANGED <<all_interpretations, parsers, language_code, parser_idx, analysis,
                   parsed_terms, i, interpretations, max_score, consumed, dwt,
                   parser_results, timed_out, retval>>
    /\ UNCHANGED <<req_vars, dis_vars, type_vars, formula_vars,
                   order_vars, kb_vars, fuzzy_vars, pool_vars, tree_vars>>

QANext ==
    \/ clean_language_code
    \/ answer_return_empty
    \/ func_wrapper_enter
    \/ unsupported_language
    \/ analyze_raises
    \/ analyze
    \/ do_with_terms
    \/ timeout_in_wrapper
    \/ timeout_outside_wrapper

(***************************************************************************)
(* Properties of QAHandler                                                 *)
(***************************************************************************)
\* The candidates of the analyzer's output whose evaluation is non-empty.
NonEmptyIds(terms) == {k \in 1..Len(terms) : terms[k].res = "nonempty"}

\* The candidates _do_with_terms is to return: every candidate with a
\* non-empty result, or only those of the best such score.
ExpectedIds(terms, all) ==
    IF all THEN NonEmptyIds(terms)
    ELSE {k \in NonEmptyIds(terms) :
            \A m \in NonEmptyIds(terms) : terms[m].score <= terms[k].score}

NonIncreasing(terms) ==
    \A j, k \in 1..Len(terms) : j < k => terms[j].score >= terms[k].score

Ids(terms) == {terms[k].id : k \in 1..Len(terms)}

NoDuplicate(terms) ==
    \A j, k \in 1..Len(terms) : terms[j].id = terms[k].id => j = k

\* The wrapped call of the current parser is over and ran _do_with_terms.
WrapperDone == pc \in {"for_parser", "done"} /\ dwt \in {"returned", "raised"}

\* C1: _do_with_terms consumes the candidates in non-increasing score order,
\* and the list it returns holds, in that order and once each, exactly the
\* candidates with a non-empty result: all of them when all_interpretations
\* is set, otherwise those whose score is the best score of a candidate with
\* a non-empty result.
C1_ScoreOrderedResults ==
    /\ NonIncreasing(consumed)
    /\ dwt = "returned" =>
         /\ Ids(interpretations) = ExpectedIds(analysis, all_interpretations)
         /\ NoDuplicate(interpretations)
         /\ NonIncreasing(interpretations)
         /\ \A k \in 1..Len(interpretations) :
               interpretations[k] = analysis[interpretations[k].id]

\* A call without all_interpretations, on an unsorted analysis, that returned
\* two candidates and left out a lower-scored one with a non-empty result.
C1_Witness ==
    /\ dwt = "returned"
    /\ ~all_interpretations
    /\ Len(interpretations) = 2
    /\ ~NonIncreasing(analysis)
    /\ NonEmptyIds(analysis) \ Ids(interpretations) # {}

\* C2: an evaluation error of one candidate is caught for that candidate
\* only: the wrapped call still returns the interpretations of the other
\* candidates.
C2_EvaluationErrorIsolated ==
    WrapperDone =>
        Ids(parser_results[Len(parser_results)]) =
            ExpectedIds(analysis, all_interpretations)

\* C3: once the timeout fired during the pipeline of a request, the whole
\* pipeline of the request is aborted and the list answer returns is empty;
\* the TimeoutError never propagates to the caller of answer.
C3_TimeoutEmptiesAnswer ==
    /\ (timed_out # {} /\ outcome = "returned") => retval = <<>>
    /\ ~(outcome = "raised" /\ exc = "TimeoutError")

\* The first non-empty list of a sequence of lists, <<>> when there is none.
FirstNonEmpty(lists) ==
    IF \E k \in 1..Len(lists) : lists[k] # <<>>
    THEN lists[CHOOSE k \in 1..Len(lists) :
                 lists[k] # <<>> /\ \A j \in 1..(k - 1) : lists[j] = <<>>]
    ELSE <<>>

\* What the wrapper does guarantee: a timeout that fires inside the wrapped
\* call of a parser makes that call return an empty list, answer goes on
\* with the remaining parsers, and what answer returns is the first
\* non-empty list a parser produced, or an empty list.
TimeoutSkipsParser ==
    /\ \A p \in timed_out : p <= Len(parser_results) /\ parser_results[p] = <<>>
    /\ outcome = "returned" => retval = FirstNonEmpty(parser_results)
    /\ outcome = "running" => \A k \in 1..Len(parser_results) : parser_results[k] = <<>>

\* C4: answer never raises, whatever fails while the request is processed.
C4_AnswerNeverRaises == outcome # "raised"

\* C25: the alarm is disarmed when the wrapped call ends.  Whenever the main
\* thread is outside func_wrapper, between two parsers or after answer, no
\* SIGALRM armed by the wrapper is pending, and no TimeoutError has been
\* raised outside the wrapper.
C25_AlarmDisarmed ==
    /\ pc \in {"for_parser", "done"} => ~alarm
    /\ exc # "TimeoutError"

(***************************************************************************)
(* PPPRequestHandler and WikidataKnowledgeBase shared by concurrent        *)
(* requests                                                                *)
(*                                                                         *)
(* flask_server.py builds one PPPRequestHandler and its knowledge base at  *)
(* import time; every request thread calls answer on that one object.      *)
(* answer submits six tasks to a thread pool; the model runs MaxTasks of   *)
(* them, all of the kind _do_with_grammatical_corenlp_analysis (the other  *)
(* tasks read the same two fields of the handler).                         *)
(***************************************************************************)
MaxRequests == 2
MaxTasks == 1

Requests == 1..MaxRequests
Tasks == 1..MaxTasks

\* The direct properties the SPARQL query of _fill_relations_for_label
\* returns, in the order of its bindings.
Bindings == <<"P31", "P569">>

\* langdetect.detect on the question of a request: a function of the text.
detect(question) == IF question % 2 = 1 THEN "en" ELSE "fr"

\* The request object flask hands to answer: its question is the sentence
\* of the tree, identified by the request it belongs to.
Request(r, language) == [question |-> r, language |-> language]

NoRequest == [question |-> 0, language |-> "none"]
NoResponse == [language |-> "none", trace |-> 0]

\* A task of the pool before it runs.
NewTask == [pc |-> "pending", tree |-> 0, language |-> "none", fill_i |-> 0,
            observed |-> "none", response |-> NoResponse]

ReqIdle ==
    /\ h_request = NoRequest
    /\ h_language = "none"
    /\ property_for_iri = {}
    /\ relations_for_label = {}
    /\ req = <<>>

\* No request has been served yet: the class-level tables are empty, the
\* handler has no _request attribute.
ReqInit ==
    /\ h_request = NoRequest
    /\ h_language = "none"
    /\ property_for_iri = {}
    /\ relations_for_label = {}
    /\ req \in [Requests -> [pc : {"answer"},
                             language : Languages \cup {"und"},
                             task : {[w \in Tasks |-> NewTask]},
                             results : {NoResponse},
                             logged : {NoRequest}]]

\* What _find_language computes from a request object.
_find_language(request) ==
    IF request.language = "und" THEN detect(request.question) ELSE request.language

\* answer, line 117: self._request = request
answer_set_request(r) ==
    /\ req[r].pc = "answer"
    /\ h_request' = Request(r, req[r].language)
    /\ req' = [req EXCEPT ![r].pc = "find_language"]
    /\ UNCHANGED <<h_language, property_for_iri, relations_for_label>>
    /\ UNCHANGED <<qa_vars, dis_vars, type_vars, formula_vars,
                   order_vars, kb_vars, fuzzy_vars, pool_vars, tree_vars>>

\* answer, line 118: self._language = self._find_language(), which reads
\* self._request; then the tasks are submitted to the pool.
answer_find_language(r) ==
    /\ req[r].pc = "find_language"
    /\ h_language' = _find_language(h_request)
    /\ req' = [req EXCEPT ![r].pc = "collect",
                          ![r].task = [w \in Tasks |-> [NewTask EXCEPT !.pc = "read_tree"]]]
    /\ UNCHANGED <<h_request, property_for_iri, relations_for_label>>
    /\ UNCHANGED <<qa_vars, dis_vars, type_vars, formula_vars,
                   order_vars, kb_vars, fuzzy_vars, pool_vars, tree_vars>>

\* _do_with_grammatical_analysis, line 161: tree = self._request.tree
task_read_tree(r, w) ==
    /\ req[r].task[w].pc = "read_tree"
    /\ req' = [req EXCEPT ![r].task[w].pc = "analyze",
                          ![r].task[w].tree = h_request.question]
    /\ UNCHANGED <<h_request, h_language, property_for_iri, relations_for_label>>
    /\ UNCHANGED <<qa_vars, dis_vars, type_vars, formula_vars,
                   order_vars, kb_vars, fuzzy_vars, pool_vars, tree_vars>>

\* line 165: GrammaticalAnalyzer(parser, kb, self._language).analyze(tree.value).
\* When the sentence holds a relation label the analyzer calls
\* relations_from_labels, which fills the table of the language if the
\* language is not yet a key of _relations_for_label.
task_analyze(r, w) ==
    /\ req[r].task[w].pc = "analyze"
    /\ \E with_relation \in BOOLEAN :
        req' = [req EXCEPT ![r].task[w].language = h_language,
                           ![r].task[w].pc =
                               IF with_relation /\ h_language \notin relations_for_label
                               THEN "fill" ELSE "evaluate",
                           ![r].task[w].fill_i =
                               IF with_relation /\ h_language \notin relations_for_label
                               THEN 1 ELSE 0]
    /\ UNCHANGED <<h_request, h_language, property_for_iri, relations_for_label>>
    /\ UNCHANGED <<qa_vars, dis_vars, type_vars, formula_vars,
                   order_vars, kb_vars, fuzzy_vars, pool_vars, tree_vars>>

\* _fill_relations_for_label, one iteration of the loop over the bindings:
\* the property is stored in the class-level _property_for_iri at once.
fill_property(r, w) ==
    /\ req[r].task[w].pc = "fill"
    /\ req[r].task[w].fill_i <= Len(Bindings)
    /\ property_for_iri' = property_for_iri \cup {Bindings[req[r].task[w].fill_i]}
    /\ req' = [req EXCEPT ![r].task[w].fill_i = @ + 1]
    /\ UNCHANGED <<h_request, h_language, relations_for_label>>
    /\ UNCHANGED <<qa_vars, dis_vars, type_vars, formula_vars,
                   order_vars, kb_vars, fuzzy_vars, pool_vars, tree_vars>>

\* _fill_relations_for_label, after the loop: the finished mapping becomes
\* the entry of the language.
fill_assign(r, w) ==
    /\ req[r].task[w].pc = "fill"
    /\ req[r].task[w].fill_i > Len(Bindings)
    /\ relations_for_label' = relations_for_label \cup {req[r].task[w].language}
    /\ req' = [req EXCEPT ![r].task[w].pc = "evaluate", ![r].task[w].fill_i = 0]
    /\ UNCHANGED <<h_request, h_language, property_for_iri>>
    /\ UNCHANGED <<qa_vars, dis_vars, type_vars, formula_vars,
                   order_vars, kb_vars, fuzzy_vars, pool_vars, tree_vars>>

\* What a reader of _property_for_iri finds.
table_state(table) ==
    IF table = {} THEN "empty"
    ELSE IF table = {Bindings[k] : k \in 1..Len(Bindings)} THEN "full"
    ELSE "partial"

\* _do_with_terms, lines 205-213: evaluate_term turns the IRIs of the SPARQL
\* results into resources, looking them up in _property_for_iri.
task_evaluate(r, w) ==
    /\ req[r].task[w].pc = "evaluate"
    /\ req' = [req EXCEPT ![r].task[w].pc = "respond",
                          ![r].task[w].observed = table_state(property_for_iri)]
    /\ UNCHANGED <<h_request, h_language, property_for_iri, relations_for_label>>
    /\ UNCHANGED <<qa_vars, dis_vars, type_vars, formula_vars,
                   order_vars, kb_vars, fuzzy_vars, pool_vars, tree_vars>>

\* _do_with_terms, lines 222-227: Response(self._language, values, measures,
\* self._request.trace + [...]).
task_respond(r, w) ==
    /\ req[r].task[w].pc = "respond"
    /\ req' = [req EXCEPT ![r].task[w].pc = "done",
                          ![r].task[w].response =
                              [language |-> h_language, trace |-> h_request.question]]
    /\ UNCHANGED <<h_request, h_language, property_for_iri, relations_for_label>>
    /\ UNCHANGED <<qa_vars, dis_vars, type_vars, formula_vars,
                   order_vars, kb_vars, fuzzy_vars, pool_vars, tree_vars>>

\* answer, lines 131-144: _first_future_with_cond waits for the first
\* future, whose response holds a resource; the log entry is built from
\* self._request and self._language; the executor is left without waiting
\* for the other tasks.
answer_collect(r) ==
    /\ req[r].pc = "collect"
    /\ req[r].task[1].pc = "done"
    /\ req' = [req EXCEPT ![r].pc = "returned",
                          ![r].results = req[r].task[1].response,
                          ![r].logged = [question |-> h_request.question,
                                         language |-> h_language]]
    /\ UNCHANGED <<h_request, h_language, property_for_iri, relations_for_label>>
    /\ UNCHANGED <<qa_vars, dis_vars, type_vars, formula_vars,
                   order_vars, kb_vars, fuzzy_vars, pool_vars, tree_vars>>

ReqNext ==
    \/ \E r \in Requests : answer_set_request(r)
    \/ \E r \in Requests : answer_find_language(r)
    \/ \E r \in Requests, w \in Tasks : task_read_tree(r, w)
    \/ \E r \in Requests, w \in Tasks : task_analyze(r, w)
    \/ \E r \in Requests, w \in Tasks : fill_property(r, w)
    \/ \E r \in Requests, w \in Tasks : fill_assign(r, w)
    \/ \E r \in Requests, w \in Tasks : task_evaluate(r, w)
    \/ \E r \in Requests, w \in Tasks : task_respond(r, w)
    \/ \E r \in Requests : answer_collect(r)

\* The language request r asked for: the one answer computes when r is
\* served alone.
OwnLanguage(r) == _find_language(Request(r, req[r].language))

\* C5: two requests processed concurrently on the same handler and
\* knowledge base share no mutable state: every task of a request reads
\* the question and the language of its own request, the response and the
\* log entry of a request carry its own language and trace, and no task
\* finds _property_for_iri filled in part.
C5_NoSharedMutableState ==
    \A r \in Requests :
        /\ \A w \in Tasks :
            LET t == req[r].task[w] IN
            /\ t.tree # 0 => t.tree = r
            /\ t.language # "none" => t.language = OwnLanguage(r)
            /\ t.observed # "partial"
            /\ t.response # NoResponse =>
                   t.response = [language |-> OwnLanguage(r), trace |-> r]
        /\ req[r].pc = "returned" =>
            /\ req[r].results = [language |-> OwnLanguage(r), trace |-> r]
            /\ req[r].logged = [question |-> r, language |-> OwnLanguage(r)]

(***************************************************************************)
(* find_process (analyzer/disambiguation.py)                               *)
(*                                                                         *)
(* A full term is modelled by the ValueFormulas its explore visits, in     *)
(* order; a ValueFormula by its original_str and by its term, on which     *)
(* its __eq__ and __hash__ rely.  A full term is named in the tree by its  *)
(* position in the argument of find_process.                               *)
(***************************************************************************)
MaxFullTerms == 3

Strs == {"foo", "name"}
Entities == {"e1", "e2"}

\* ValueFormula(term, original_str); original_str defaults to None.
ValueFormulas ==
    [original_str : Strs, term : Entities] \cup {[original_str |-> "None", term |-> "e1"]}

\* The full terms: no ValueFormula, one (with or without original_str), or
\* two that both have an original_str.
FullTerms ==
    {<<>>} \cup {<<a>> : a \in ValueFormulas}
           \cup {<<a, b>> : a, b \in [original_str : Strs, term : Entities]}

DisIdle ==
    /\ full_terms = <<>>
    /\ tree = <<>>
    /\ dis_pc = "idle"

DisInit ==
    /\ full_terms = <<>>
    /\ tree = <<>>
    /\ dis_pc = "input"

\* A Python dict as the sequence of its items in insertion order.
dict_has(d, k) == \E j \in DOMAIN d : d[j].key = k

dict_get(d, k) == d[CHOOSE j \in DOMAIN d : d[j].key = k].value

\* d[k] = v: a new key goes last, a known key keeps its place.
dict_set(d, k, v) ==
    IF dict_has(d, k)
    THEN [j \in DOMAIN d |-> IF d[j].key = k THEN [key |-> k, value |-> v] ELSE d[j]]
    ELSE Append(d, [key |-> k, value |-> v])

\* del d[k]
dict_del(d, k) == SelectSeq(d, LAMBDA e : e.key # k)

\* find_term_with_str, the callback of explore.
find_term_with_str(term, trace) ==
    IF term.original_str # "None"
    THEN dict_set(trace, term.original_str, term.term)
    ELSE trace

\* full_term.explore(find_term_with_str)
RECURSIVE explore(_, _)
explore(full_term, trace) ==
    IF full_term = <<>> THEN trace
    ELSE explore(Tail(full_term), find_term_with_str(Head(full_term), trace))

all_full_terms_with_trace(terms) ==
    [k \in DOMAIN terms |-> [full_term |-> k, trace |-> explore(terms[k], <<>>)]]

\* The items of all the traces, in the order the two loops of build_tree
\* visit them.
RECURSIVE trace_items(_)
trace_items(full_terms_with_trace) ==
    IF full_terms_with_trace = <<>> THEN <<>>
    ELSE Head(full_terms_with_trace).trace \o trace_items(Tail(full_terms_with_trace))

\* str_possible_terms[key].add(value) for each item, on a defaultdict(set).
RECURSIVE add_possible_terms(_, _)
add_possible_terms(items, possible) ==
    IF items = <<>> THEN possible
    ELSE LET key == Head(items).key
             known == IF dict_has(possible, key) THEN dict_get(possible, key) ELSE {}
         IN add_possible_terms(Tail(items),
                               dict_set(possible, key, known \cup {Head(items).value}))

str_possible_terms(full_terms_with_trace) ==
    add_possible_terms(trace_items(full_terms_with_trace), <<>>)

\* sorted(items, key=lambda t: len(t[1]), reverse=True): a stable sort, so
\* items with as many terms keep their order.
RECURSIVE sorted_by_usage(_)
sorted_by_usage(items) ==
    IF items = <<>> THEN <<>>
    ELSE LET rest == sorted_by_usage(Tail(items))
             n == Cardinality(Head(items).value)
             before == SelectSeq(rest, LAMBDA e : Cardinality(e.value) > n)
             after == SelectSeq(rest, LAMBDA e : Cardinality(e.value) <= n)
         IN before \o <<Head(items)>> \o after

key_term_by_usage(full_terms_with_trace) ==
    sorted_by_usage(str_possible_terms(full_terms_with_trace))

\* A faulty variant of the choice: the first string met, not the most used one.
discriminative_str_first(full_terms_with_trace) ==
    str_possible_terms(full_terms_with_trace)[1].key

discriminative_str(full_terms_with_trace) ==
    key_term_by_usage(full_terms_with_trace)[1].key

\* The terms that use value for the string s, their trace without s.
by_discriminative_str_term(full_terms_with_trace, s, value) ==
    LET chosen == SelectSeq(full_terms_with_trace,
                            LAMBDA e : dict_has(e.trace, s) /\ dict_get(e.trace, s) = value)
    IN [k \in DOMAIN chosen |->
           [full_term |-> chosen[k].full_term, trace |-> dict_del(chosen[k].trace, s)]]

\* A faulty variant of the split: the terms that do not hold the string are lost.
others_dropped(full_terms_with_trace, s) == <<>>

others_full_terms_with_trace(full_terms_with_trace, s) ==
    SelectSeq(full_terms_with_trace, LAMBDA e : ~dict_has(e.trace, s))

\* A leaf is the list of the full terms, a node a DisambiguationStep.
RECURSIVE build_tree(_)
build_tree(full_terms_with_trace) ==
    LET usage == key_term_by_usage(full_terms_with_trace) IN
    IF usage = <<>> \/ Cardinality(usage[1].value) < 2
    THEN [kind |-> "leaf",
          terms |-> [k \in DOMAIN full_terms_with_trace |-> full_terms_with_trace[k].full_term]]
    ELSE LET s == discriminative_str(full_terms_with_trace)
             values == {dict_get(e.trace, s) :
                           e \in {full_terms_with_trace[k] :
                                     k \in {j \in DOMAIN full_terms_with_trace :
                                               dict_has(full_terms_with_trace[j].trace, s)}}}
         IN [kind |-> "step",
             str_to_disambiguate |-> s,
             possibilities |->
                 [v \in values |->
                     build_tree(by_discriminative_str_term(full_terms_with_trace, s, v))],
             others |-> build_tree(others_full_terms_with_trace(full_terms_with_trace, s))]

find_process(terms) == build_tree(all_full_terms_with_trace(terms))

\* The caller builds the list of full terms.
append_full_term ==
    /\ dis_pc = "input"
    /\ Len(full_terms) < MaxFullTerms
    /\ \E t \in FullTerms : full_terms' = Append(full_terms, t)
    /\ UNCHANGED <<tree, dis_pc>>
    /\ UNCHANGED <<qa_vars, req_vars, type_vars, formula_vars,
                   order_vars, kb_vars, fuzzy_vars, pool_vars, tree_vars>>

call_find_process ==
    /\ dis_pc = "input"
    /\ tree' = find_process(full_terms)
    /\ dis_pc' = "done"
    /\ UNCHANGED full_terms
    /\ UNCHANGED <<qa_vars, req_vars, type_vars, formula_vars,
                   order_vars, kb_vars, fuzzy_vars, pool_vars, tree_vars>>

DisNext ==
    \/ append_full_term
    \/ call_find_process

RECURSIVE SumOver(_, _)
SumOver(f, S) ==
    IF S = {} THEN 0
    ELSE LET x == CHOOSE y \in S : TRUE IN f[x] + SumOver(f, S \ {x})

\* How many times the full term k stands in a leaf of the tree t.
RECURSIVE LeafCount(_, _)
LeafCount(t, k) ==
    IF t.kind = "leaf" THEN Cardinality({j \in DOMAIN t.terms : t.terms[j] = k})
    ELSE SumOver([v \in DOMAIN t.possibilities |-> LeafCount(t.possibilities[v], k)],
                 DOMAIN t.possibilities)
         + LeafCount(t.others, k)

\* The number of entries of all the leaves of the tree t.
RECURSIVE LeafTotal(_)
LeafTotal(t) ==
    IF t.kind = "leaf" THEN Len(t.terms)
    ELSE SumOver([v \in DOMAIN t.possibilities |-> LeafTotal(t.possibilities[v])],
                 DOMAIN t.possibilities)
         + LeafTotal(t.others)

\* C6: every input term appears in exactly one leaf of the tree find_process
\* returns: each position of the input list stands exactly once in the
\* leaves, and the leaves hold nothing else, so the leaves taken together
\* are the input list as a multiset.
C6_EveryTermInOneLeaf ==
    dis_pc = "done" =>
        /\ \A k \in DOMAIN full_terms : LeafCount(tree, k) = 1
        /\ LeafTotal(tree) = Len(full_terms)

\* find_process has built a node whose others branch holds a term.
C6_Witness ==
    /\ dis_pc = "done"
    /\ tree.kind = "step"
    /\ LeafTotal(tree.others) > 0

\* The Values the terms of a partition use for the string s.
ValuesFor(full_terms_with_trace, s) ==
    {dict_get(full_terms_with_trace[k].trace, s) :
        k \in {j \in DOMAIN full_terms_with_trace : dict_has(full_terms_with_trace[j].trace, s)}}

\* The tree t is the one C7 describes for the partition p.
RECURSIVE NodeAsSpecified(_, _)
NodeAsSpecified(t, p) ==
    IF t.kind = "leaf"
    THEN /\ \A s \in Strs : Cardinality(ValuesFor(p, s)) < 2
         /\ t.terms = [k \in DOMAIN p |-> p[k].full_term]
    ELSE LET s == t.str_to_disambiguate IN
         /\ s \in Strs
         /\ Cardinality(ValuesFor(p, s)) >= 2
         /\ \A s2 \in Strs : Cardinality(ValuesFor(p, s2)) <= Cardinality(ValuesFor(p, s))
         /\ DOMAIN t.possibilities = ValuesFor(p, s)
         /\ \A v \in DOMAIN t.possibilities :
                NodeAsSpecified(
                    t.possibilities[v],
                    LET using == SelectSeq(p, LAMBDA e : dict_has(e.trace, s)
                                                          /\ dict_get(e.trace, s) = v)
                    IN [k \in DOMAIN using |->
                           [full_term |-> using[k].full_term,
                            trace |-> SelectSeq(using[k].trace, LAMBDA i2 : i2.key # s)]])
         /\ NodeAsSpecified(t.others, SelectSeq(p, LAMBDA e : ~dict_has(e.trace, s)))

\* C7: at every node built by find_process the chosen string has at least
\* two distinct Values and as many as any string still in the traces of the
\* terms of the partition; the terms are split by the Value they use for it,
\* those that do not hold it go to others; and a leaf is built exactly when
\* no string has two distinct Values.
C7_MostDiscriminativeStr ==
    dis_pc = "done" => NodeAsSpecified(tree, all_full_terms_with_trace(full_terms))

\* A node below the root: one of the possibilities of the root is split
\* again, another one is a leaf.
C7_Witness ==
    /\ dis_pc = "done"
    /\ tree.kind = "step"
    /\ \E v \in DOMAIN tree.possibilities : tree.possibilities[v].kind = "step"
    /\ \E v \in DOMAIN tree.possibilities : tree.possibilities[v].kind = "leaf"

(***************************************************************************)
(* The type algebra (database/formula.py) over the classes and datatypes   *)
(* of database/owl.py                                                      *)
(*                                                                         *)
(* An _AtomicType is [kind, entity, literal]: entity is a union (a set) of *)
(* intersections (sets) of classes, literal the same for datatypes.  A     *)
(* _TupleType is [kind, types] with the sequence of its positions.         *)
(***************************************************************************)
MaxTypeSteps == 2

rdfs_Class == "rdfs:Class"
owl_Thing == "owl:Thing"
owl_Nothing == "owl:Nothing"
rdfs_Datatype == "rdfs:Datatype"
rdf_Property == "rdf:Property"
owl_ObjectProperty == "owl:ObjectProperty"
owl_DatatypeProperty == "owl:DatatypeProperty"
owl_NamedIndividual == "owl:NamedIndividual"
schema_Person == "schema:Person"
schema_Place == "schema:Place"

rdfs_Literal == "rdfs:Literal"
rdf_langString == "rdf:langString"
platypus_calendar == "platypus:calendar"
platypus_numeric == "platypus:numeric"
xsd_anyURI == "xsd:anyURI"
xsd_boolean == "xsd:boolean"
xsd_dateTime == "xsd:dateTime"
xsd_date == "xsd:date"
xsd_decimal == "xsd:decimal"
xsd_double == "xsd:double"
xsd_duration == "xsd:duration"
xsd_float == "xsd:float"
xsd_gYearMonth == "xsd:gYearMonth"
xsd_gYear == "xsd:gYear"
xsd_integer == "xsd:integer"
xsd_string == "xsd:string"
xsd_time == "xsd:time"
geo_wktLiteral == "geo:wktLiteral"

Classes ==
    {rdfs_Class, owl_Thing, owl_Nothing, rdfs_Datatype, rdf_Property, owl_ObjectProperty,
     owl_DatatypeProperty, owl_NamedIndividual, schema_Person, schema_Place}

Datatypes ==
    {rdfs_Literal, rdf_langString, platypus_calendar, platypus_numeric, xsd_anyURI,
     xsd_boolean, xsd_dateTime, xsd_date, xsd_decimal, xsd_double, xsd_duration, xsd_float,
     xsd_gYearMonth, xsd_gYear, xsd_integer, xsd_string, xsd_time, geo_wktLiteral}

\* Class._subclass_of, as given to the constructor of each class.
_subclass_of(class) ==
    CASE class \in {rdf_Property, owl_NamedIndividual} -> {owl_Thing}
      [] class \in {owl_ObjectProperty, owl_DatatypeProperty} -> {rdf_Property}
      [] class \in {schema_Person, schema_Place} -> {owl_NamedIndividual}
      [] OTHER -> {}

\* Datatype._restriction_of, as given to the constructor of each datatype.
_restriction_of(datatype) ==
    CASE datatype = rdfs_Literal -> {}
      [] datatype \in {xsd_dateTime, xsd_date, xsd_gYearMonth, xsd_gYear, xsd_time} ->
             {rdfs_Literal, platypus_calendar}
      [] datatype \in {xsd_decimal, xsd_double, xsd_float} -> {rdfs_Literal, platypus_numeric}
      [] datatype = xsd_integer -> {rdfs_Literal, platypus_numeric, xsd_decimal}
      [] OTHER -> {rdfs_Literal}

RECURSIVE is_subclass_of(_, _)
is_subclass_of(self, other) ==
    IF self = owl_Nothing THEN TRUE
    ELSE self = other \/ \E super_dt \in _subclass_of(self) : is_subclass_of(super_dt, other)

RECURSIVE is_restriction_of(_, _)
is_restriction_of(self, other) ==
    self = other \/ \E super_dt \in _restriction_of(self) : is_restriction_of(super_dt, other)

_class_intersection_is_in(sub, sup) ==
    \A sub_elem \in sub : \E sup_elem \in sup : is_subclass_of(sub_elem, sup_elem)

_datatype_intersection_is_in(sub, sup) ==
    \A sub_elem \in sub : \E sup_elem \in sup : is_restriction_of(sub_elem, sup_elem)

_simplify_class_intersection(intersection) ==
    LET result == {class \in intersection :
                      ~\E class_2 \in intersection :
                          is_subclass_of(class_2, class) /\ class # class_2}
    IN IF result # {} THEN result ELSE {owl_Thing}

\* A faulty variant: datatypes without a restriction relation are kept as an
\* intersection.
_simplify_datatype_intersection_kept(intersection) ==
    LET result == {dt \in intersection :
                      ~\E dt2 \in intersection : is_restriction_of(dt2, dt) /\ dt # dt2}
    IN IF result = {} THEN {{rdfs_Literal}} ELSE {result}

\* The intersections a simplified datatype intersection stands for: none
\* where the code returns None, one otherwise.
_simplify_datatype_intersection(intersection) ==
    LET result == {dt \in intersection :
                      ~\E dt2 \in intersection : is_restriction_of(dt2, dt) /\ dt # dt2}
    IN IF result = {} THEN {{rdfs_Literal}}
       ELSE IF Cardinality(result) = 1 THEN {result} ELSE {}

_simplify_class(union) ==
    LET present == {_simplify_class_intersection(inter) : inter \in union}
        result == {inter \in present :
                      /\ inter # {owl_Nothing}
                      /\ ~\E inter2 \in present :
                             _class_intersection_is_in(inter, inter2) /\ inter # inter2}
    IN IF result # {} THEN result ELSE {{owl_Nothing}}

_simplify_datatype(union) ==
    LET present == UNION {_simplify_datatype_intersection(inter) : inter \in union}
    IN {inter \in present :
           ~\E inter2 \in present :
               _datatype_intersection_is_in(inter, inter2) /\ inter # inter2}

\* _AtomicType.__init__
_AtomicType(entity, literal) ==
    [kind |-> "atomic", entity |-> _simplify_class(entity),
     literal |-> _simplify_datatype(literal)]

\* _TupleType.__init__
_TupleType(types) == [kind |-> "tuple", types |-> types]

\* Type.from_entity
from_entity(entity) ==
    IF entity \in Classes THEN _AtomicType({{entity}}, {})
    ELSE _AtomicType({}, {{entity}})

\* Type.bottom()
bottom == _AtomicType({}, {})

\* Type.tuple(*types)
RECURSIVE tuple(_)
tuple(types) ==
    IF Len(types) > 0 /\ types[Len(types)] = bottom
    THEN tuple(SubSeq(types, 1, Len(types) - 1))
    ELSE IF Len(types) = 0 THEN bottom
    ELSE IF Len(types) = 1 THEN types[1]
    ELSE _TupleType(types)

\* Type.top(arity)
top(arity) == tuple([k \in 1..arity |-> _AtomicType({{}}, {{}})])

\* __len__
len(self) == IF self.kind = "atomic" THEN 1 ELSE Len(self.types)

\* __getitem__, with key counted from 1
getitem(self, key) ==
    IF self.kind = "atomic" THEN (IF key = 1 THEN self ELSE bottom)
    ELSE IF key <= Len(self.types) THEN self.types[key] ELSE bottom

\* __or__
RECURSIVE __or__(_, _)
__or__(self, other) ==
    IF self.kind = "atomic" /\ other.kind = "atomic"
    THEN _AtomicType(self.entity \cup other.entity, self.literal \cup other.literal)
    ELSE IF self.kind = "atomic" THEN __or__(other, self)
    ELSE _TupleType([k \in 1..Max(len(self), len(other)) |->
                        __or__(getitem(self, k), getitem(other, k))])

\* __and__
RECURSIVE __and__(_, _)
__and__(self, other) ==
    IF self.kind = "atomic" /\ other.kind = "atomic"
    THEN _AtomicType({t1 \cup t2 : t1 \in self.entity, t2 \in other.entity},
                     {t1 \cup t2 : t1 \in self.literal, t2 \in other.literal})
    ELSE IF self.kind = "atomic" THEN __and__(other, self)
    ELSE _TupleType([k \in 1..Max(len(self), len(other)) |->
                        __and__(getitem(self, k), getitem(other, k))])

\* __eq__: the same class, and the same fields.
__eq__(self, other) ==
    IF self.kind = "atomic"
    THEN other.kind = "atomic" /\ self.entity = other.entity /\ self.literal = other.literal
    ELSE other.kind = "tuple" /\ self.types = other.types

\* __le__
RECURSIVE __le__(_, _)
__le__(self, other) ==
    IF self.kind = "atomic" THEN __eq__(__or__(self, other), other)
    ELSE \A k \in 1..Max(len(self), len(other)) : __le__(getitem(self, k), getitem(other, k))

\* The entities the types of the model are first built from.
TypeEntities ==
    {rdfs_Class, owl_Thing, rdf_Property, owl_NamedIndividual, schema_Person, schema_Place,
     xsd_string, xsd_integer, xsd_decimal}

TypeIdle ==
    /\ ta = <<>>
    /\ tb = <<>>
    /\ tc = <<>>
    /\ ty_steps = 0

TypeInit ==
    /\ ta \in {from_entity(e) : e \in TypeEntities}
    /\ tb \in {from_entity(e) : e \in TypeEntities}
    /\ tc \in {from_entity(e) : e \in TypeEntities}
    /\ ty_steps = 0

\* The variables an operand is read from.
Operands == {"ta", "tb", "tc"}

operand(name) == IF name = "ta" THEN ta ELSE IF name = "tb" THEN tb ELSE tc

\* ta = x | y
apply_or ==
    /\ ty_steps < MaxTypeSteps
    /\ \E x, y \in Operands : ta' = __or__(operand(x), operand(y))
    /\ ty_steps' = ty_steps + 1
    /\ UNCHANGED <<tb, tc>>
    /\ UNCHANGED <<qa_vars, req_vars, dis_vars, formula_vars,
                   order_vars, kb_vars, fuzzy_vars, pool_vars, tree_vars>>

\* ta = x & y
apply_and ==
    /\ ty_steps < MaxTypeSteps
    /\ \E x, y \in Operands : ta' = __and__(operand(x), operand(y))
    /\ ty_steps' = ty_steps + 1
    /\ UNCHANGED <<tb, tc>>
    /\ UNCHANGED <<qa_vars, req_vars, dis_vars, formula_vars,
                   order_vars, kb_vars, fuzzy_vars, pool_vars, tree_vars>>

\* ta = Type.tuple(x, y), for types without arity
apply_tuple ==
    /\ ty_steps < MaxTypeSteps
    /\ \E x, y \in Operands :
        /\ operand(x).kind = "atomic" /\ operand(y).kind = "atomic"
        /\ ta' = tuple(<<operand(x), operand(y)>>)
    /\ ty_steps' = ty_steps + 1
    /\ UNCHANGED <<tb, tc>>
    /\ UNCHANGED <<qa_vars, req_vars, dis_vars, formula_vars,
                   order_vars, kb_vars, fuzzy_vars, pool_vars, tree_vars>>

TypeNext ==
    \/ apply_or
    \/ apply_and
    \/ apply_tuple

Trimmed(t) == t.kind = "tuple" => (Len(t.types) >= 2 /\ t.types[Len(t.types)] # bottom)

\* C12: tuple types are kept trimmed: Type.tuple() is bottom, Type.tuple(t)
\* is t, trailing bottom positions are removed, positions past the arity read
\* as bottom, and the union and the intersection of types of any arities are
\* position-wise with bottom padding and have no trailing bottom position.
C12_TuplesTrimmed ==
    /\ tuple(<<>>) = bottom
    /\ \A a, b \in {ta, tb, tc} :
        /\ Trimmed(a)
        /\ tuple(<<a>>) = a
        /\ tuple(<<a, bottom>>) = a
        /\ getitem(a, len(a) + 1) = bottom
        /\ \A k \in 1..Max(len(a), len(b)) :
               /\ getitem(__or__(a, b), k) = __or__(getitem(a, k), getitem(b, k))
               /\ getitem(__and__(a, b), k) = __and__(getitem(a, k), getitem(b, k))
        /\ Trimmed(__or__(a, b))
        /\ Trimmed(__and__(a, b))

\* Type.from_entity of each datatype.
DatatypeTypes == [d \in Datatypes |-> from_entity(d)]

\* The datatypes a type is the from_entity of.
DatatypesOf(a) == {d \in Datatypes : a = DatatypeTypes[d]}

\* C11: the intersection of two datatypes that have no restriction relation
\* between them is the bottom type, and the intersection of a datatype with
\* one of its restriction ancestors is the more restricted datatype.
C11_DatatypeIntersection ==
    \A a, b \in {ta, tb, tc} :
        \A d1 \in DatatypesOf(a), d2 \in DatatypesOf(b) :
            __eq__(__and__(a, b),
                   IF is_restriction_of(d1, d2) THEN a
                   ELSE IF is_restriction_of(d2, d1) THEN b
                   ELSE bottom)

\* xsd:string & xsd:integer has been computed and is bottom, beside
\* xsd:integer and its ancestor xsd:decimal.
C11_Witness ==
    /\ ty_steps = 1
    /\ ta = bottom
    /\ tb = from_entity(xsd_integer)
    /\ tc = from_entity(xsd_decimal)
    /\ __and__(tb, tc) = tb

C29_MeetAndJoin ==
    \A a, b \in {ta, tb, tc} :
        /\ __le__(__and__(a, b), a)
        /\ __le__(__and__(a, b), b)
        /\ __le__(a, __or__(a, b))
        /\ __le__(b, __or__(a, b))
        /\ __eq__(__or__(a, __and__(a, b)), a)

(***************************************************************************)
(* Formulas (database/formula.py).                                         *)
(*                                                                         *)
(* A term is a record tagged with the name of its class.  The args of an   *)
(* AndFormula or an OrFormula are a frozenset: a set in which no element   *)
(* is == to another one.  Python compares and deduplicates terms with      *)
(* their __eq__ methods, which are not structural (an EqualityFormula is   *)
(* symmetric, an ExistsFormula renames its argument), so the model keeps   *)
(* them as the operator Term__eq__ and never uses = in their place.        *)
(* A frozenset is iterated in an order fixed by the hashes of its          *)
(* elements: iter takes one arbitrary fixed order.                         *)
(* A constructor that raises ValueError yields the value ValueError, and   *)
(* every operation given that value yields it as well.                     *)
(***************************************************************************)
MaxFormulaSteps == 2

\* x and y occur in the formulas of the states; z is a name none of them uses
VariableNames == {"x", "y", "z"}

\* The terms a ValueFormula wraps: the boolean literals, the string "foo",
\* the individual JohnDoe and the datatype property schema:name.
Literals == {"true", "false", "foo"}

Individuals == {"JohnDoe"}

Properties == {"schema_name"}

\* Literal.datatype
datatype(term) == IF term \in {"true", "false"} THEN xsd_boolean ELSE xsd_string

\* Entity.types
types(term) ==
    IF term \in Individuals THEN <<schema_Person>> ELSE <<rdf_Property, owl_DatatypeProperty>>

\* Property.domain
domain(term) == schema_Person

\* Property.range
range(term) == xsd_string

VariableFormula(name) == [kind |-> "VariableFormula", name |-> name]

ValueFormula(term) == [kind |-> "ValueFormula", term |-> term]

true_formula == ValueFormula("true")

false_formula == ValueFormula("false")

ValueError == [kind |-> "ValueError"]

\* ValueFormula.type, for every wrapped term
RECURSIVE union_of(_)
union_of(classes) ==
    IF Len(classes) = 1 THEN from_entity(classes[1])
    ELSE __or__(union_of(SubSeq(classes, 1, Len(classes) - 1)),
                from_entity(classes[Len(classes)]))

ValueFormula_type ==
    [term \in Literals \cup Individuals \cup Properties |->
        IF term \in Literals THEN from_entity(datatype(term)) ELSE union_of(types(term))]

\* Iteration over a frozenset.
RECURSIVE iter(_)
iter(S) ==
    IF S = {} THEN <<>>
    ELSE LET e == CHOOSE a \in S : TRUE IN <<e>> \o iter(S \ {e})

(***************************************************************************)
(* The operations of Type on the types of the terms of the model.  The     *)
(* types a variable or a value can be given are those of the terms and of  *)
(* the classes and datatypes TripleFormula and EqualityFormula constrain   *)
(* a variable with, combined with & and |.  type_results holds the results *)
(* of the operators of the Type section on these types, computed once; a   *)
(* formula names a type by its position in the list of these types and    *)
(* reads the result of an operation in type_results.                       *)
(***************************************************************************)
ConstraintEntities == {owl_Thing, rdf_Property, schema_Person, xsd_string, xsd_boolean, rdfs_Literal}

TermTypes ==
    {top(1), bottom} \cup {from_entity(entity) : entity \in ConstraintEntities}
        \cup {ValueFormula_type[term] : term \in DOMAIN ValueFormula_type}

combined(S) ==
    S \cup {__and__(a, b) : a \in S, b \in S} \cup {__or__(a, b) : a \in S, b \in S}

FormulaTypes == combined(combined(TermTypes))

TypeIndex(list, type_) == CHOOSE k \in 1..Len(list) : list[k] = type_

\* the results for the types of list
TypeTable(list) ==
    [top |-> TypeIndex(list, top(1)),
     bottom |-> TypeIndex(list, bottom),
     from_entity |-> [entity \in ConstraintEntities |-> TypeIndex(list, from_entity(entity))],
     ValueFormula_type |->
         [term \in DOMAIN ValueFormula_type |-> TypeIndex(list, ValueFormula_type[term])],
     __and__ |->
         [a \in 1..Len(list) |-> [b \in 1..Len(list) |->
             TypeIndex(list, __and__(list[a], list[b]))]],
     __or__ |->
         [a \in 1..Len(list) |-> [b \in 1..Len(list) |->
             TypeIndex(list, __or__(list[a], list[b]))]],
     __le__ |->
         {p \in (1..Len(list)) \X (1..Len(list)) : __le__(list[p[1]], list[p[2]])}]

TypeResults == TypeTable(iter(FormulaTypes))

Type_from_entity(entity) == type_results.from_entity[entity]

Type__and__(self, other) == type_results.__and__[self][other]

Type__or__(self, other) == type_results.__or__[self][other]

Type__le__(self, other) == <<self, other>> \in type_results.__le__

Type__eq__(self, other) == self = other

_literal_type == Type_from_entity(rdfs_Literal)

_property_type == Type_from_entity(rdf_Property)

_boolean_type == Type_from_entity(xsd_boolean)

\* Term.type
type(self) ==
    IF self.kind = "VariableFormula" THEN type_results.top
    ELSE IF self.kind = "ValueFormula" THEN type_results.ValueFormula_type[self.term]
    ELSE _boolean_type

\* [f(item) for item in items], written over sequences
RECURSIVE concat(_)
concat(lists) == IF lists = <<>> THEN <<>> ELSE Head(lists) \o concat(Tail(lists))

(***************************************************************************)
(* _TypeForVariables: a dict from variables to types.  A variable without  *)
(* an entry is mapped to Missing, which is the position of no type;        *)
(* reading it gives Type.top().                                            *)
(***************************************************************************)
Missing == 0

_TypeForVariables == [v \in VariableNames |-> Missing]

__missing__(self, key) == IF self[key] = Missing THEN type_results.top ELSE self[key]

__delitem__(self, key) == [self EXCEPT ![key] = Missing]

\* result[variable] &= type_
and_item(self, var, type_) ==
    [self EXCEPT ![var.name] = Type__and__(__missing__(self, var.name), type_)]

_TypeForVariables__and__(self, other) ==
    [v \in VariableNames |->
        IF other[v] = Missing THEN self[v] ELSE Type__and__(__missing__(self, v), other[v])]

_TypeForVariables__or__(self, other) ==
    [v \in VariableNames |->
        IF other[v] = Missing THEN self[v] ELSE Type__or__(__missing__(self, v), other[v])]

RECURSIVE reduce_and(_)
reduce_and(items) ==
    IF Len(items) = 1 THEN items[1]
    ELSE _TypeForVariables__and__(reduce_and(SubSeq(items, 1, Len(items) - 1)),
                                  items[Len(items)])

RECURSIVE reduce_or(_)
reduce_or(items) ==
    IF Len(items) = 1 THEN items[1]
    ELSE _TypeForVariables__or__(reduce_or(SubSeq(items, 1, Len(items) - 1)),
                                 items[Len(items)])

RECURSIVE _variables_types(_)
_variables_types(self) ==
    IF self.kind = "AndFormula"
    THEN LET args == iter(self.args)
         IN reduce_and([k \in 1..Len(args) |-> _variables_types(args[k])])
    ELSE IF self.kind = "OrFormula"
    THEN LET args == iter(self.args)
         IN reduce_or([k \in 1..Len(args) |-> _variables_types(args[k])])
    ELSE IF self.kind = "EqualityFormula"
    THEN LET r0 == _TypeForVariables__and__(_variables_types(self.left),
                                            _variables_types(self.right))
             r1 == IF self.left.kind = "VariableFormula"
                   THEN and_item(r0, self.left, type(self.right)) ELSE r0
         IN IF self.right.kind = "VariableFormula"
            THEN and_item(r1, self.right, type(self.left)) ELSE r1
    ELSE IF self.kind = "TripleFormula"
    THEN LET r0 == _TypeForVariables
             r1 == IF self.subject.kind = "VariableFormula"
                   THEN and_item(r0, self.subject, Type_from_entity(owl_Thing)) ELSE r0
             r2 == IF self.predicate.kind = "VariableFormula"
                   THEN and_item(r1, self.predicate, Type_from_entity(rdf_Property)) ELSE r1
             known == /\ self.predicate.kind = "ValueFormula"
                      /\ self.predicate.term \in Properties
             r3 == IF known /\ self.subject.kind = "VariableFormula"
                   THEN and_item(r2, self.subject, Type_from_entity(domain(self.predicate.term)))
                   ELSE r2
         IN IF known /\ self.object.kind = "VariableFormula"
            THEN and_item(r3, self.object, Type_from_entity(range(self.predicate.term)))
            ELSE r3
    ELSE IF self.kind = "ExistsFormula"
    THEN __delitem__(_variables_types(self.body), self.argument.name)
    ELSE _TypeForVariables

(***************************************************************************)
(* The constructors, substitute and __eq__ call one another: a call of one *)
(* of them is written call(name, arguments), which dispatches to the       *)
(* definition of that name.                                                *)
(* A comparison with true_formula, false_formula or a VariableFormula is   *)
(* written =: == of any class to a ValueFormula (VariableFormula) holds    *)
(* exactly for the ValueFormula of that term (VariableFormula of that      *)
(* name).                                                                  *)
(***************************************************************************)
RECURSIVE call(_, _)

\* frozenset(items): an item == to one already stored is not added
RECURSIVE frozenset(_)
frozenset(items) ==
    IF items = <<>> THEN {}
    ELSE LET stored == frozenset(SubSeq(items, 1, Len(items) - 1))
             key == items[Len(items)]
         IN IF \E entry \in stored : entry = key \/ call("__eq__", <<entry, key>>)
            THEN stored ELSE stored \cup {key}

\* frozenset.__eq__: same size, and every element of self is found in other
\* (the same object, or an entry of other that is == to it)
frozenset__eq__(self, other) ==
    /\ Cardinality(self) = Cardinality(other)
    /\ \A key \in self : \E entry \in other : entry = key \/ call("__eq__", <<entry, key>>)

\* EqualityFormula.__new__ and __init__
EqualityFormula(left, right) ==
    IF left = ValueError \/ right = ValueError THEN ValueError
    ELSE IF call("__eq__", <<left, right>>) THEN true_formula
    ELSE IF left.kind = "ValueFormula" /\ right.kind = "ValueFormula" THEN false_formula
    ELSE [kind |-> "EqualityFormula", left |-> left, right |-> right]

\* TripleFormula.__init__
TripleFormula(subject, predicate, _object) ==
    IF subject = ValueError \/ predicate = ValueError \/ _object = ValueError THEN ValueError
    ELSE IF Type__le__(type(subject), _literal_type) THEN ValueError
    ELSE IF Type__eq__(Type__and__(type(predicate), _property_type), type_results.bottom) THEN ValueError
    ELSE [kind |-> "TripleFormula", subject |-> subject, predicate |-> predicate,
          object |-> _object]

\* the loop of __init__: the args of an argument of class cls are spliced in,
\* an argument equal to neutral is skipped
filtered_arguments(args, cls, neutral) ==
    concat([k \in 1..Len(args) |->
               IF args[k].kind = cls THEN iter(args[k].args)
               ELSE IF args[k] = neutral THEN <<>>
               ELSE <<args[k]>>])

\* AndFormula.__init__
AndFormula__init__(args) ==
    [kind |-> "AndFormula",
     args |-> frozenset(filtered_arguments(args, "AndFormula", true_formula))]

\* the loop of AndFormula.__new__: the clauses, or <<>> when an argument is false
RECURSIVE clauses_of(_, _)
clauses_of(args, clauses) ==
    IF args = <<>> THEN clauses
    ELSE LET arg == Head(args) IN
         IF arg = true_formula THEN clauses_of(Tail(args), clauses)
         ELSE IF arg = false_formula THEN <<>>
         ELSE IF arg.kind = "OrFormula"
         THEN LET args2 == iter(arg.args)
              IN clauses_of(Tail(args),
                     concat([c \in 1..Len(clauses) |->
                                [k \in 1..Len(args2) |-> Append(clauses[c], args2[k])]]))
         ELSE clauses_of(Tail(args),
                         [c \in 1..Len(clauses) |-> Append(clauses[c], arg)])

\* AndFormula.__new__; super().__new__(cls) is an AndFormula without args
AndFormula__new__(args) ==
    LET clauses == clauses_of(args, <<(<<>>)>>) IN
    IF clauses = <<>> THEN false_formula
    ELSE IF Len(clauses) > 1
    THEN call("OrFormula",
              <<[c \in 1..Len(clauses) |-> call("AndFormula", <<clauses[c]>>)]>>)
    ELSE IF Len(clauses[1]) = 0 THEN true_formula
    ELSE IF Len(clauses[1]) = 1 THEN clauses[1][1]
    ELSE [kind |-> "AndFormula"]

\* AndFormula(args): __new__, then __init__ on its result whenever the result
\* is an AndFormula, whether __new__ created it or not
AndFormula(args) ==
    IF \E k \in 1..Len(args) : args[k] = ValueError THEN ValueError
    ELSE LET new == AndFormula__new__(args)
         IN IF new.kind = "AndFormula" THEN AndFormula__init__(args) ELSE new

\* OrFormula.__init__
OrFormula__init__(args) ==
    [kind |-> "OrFormula",
     args |-> frozenset(filtered_arguments(args, "OrFormula", false_formula))]

\* OrFormula.__new__; super().__new__(cls) is an OrFormula without args
OrFormula__new__(args) ==
    IF \E k \in 1..Len(args) : args[k] = true_formula THEN true_formula
    ELSE LET filtered == SelectSeq(args, LAMBDA a : a # false_formula)
         IN IF Len(filtered) = 0 THEN false_formula
            ELSE IF Len(filtered) = 1 THEN filtered[1]
            ELSE [kind |-> "OrFormula"]

\* OrFormula(args): __new__, then __init__ on its result whenever the result
\* is an OrFormula, whether __new__ created it or not
OrFormula(args) ==
    IF \E k \in 1..Len(args) : args[k] = ValueError THEN ValueError
    ELSE LET new == OrFormula__new__(args)
         IN IF new.kind = "OrFormula" THEN OrFormula__init__(args) ELSE new

\* NotFormula.__new__; super().__new__(cls) is a NotFormula without arg
NotFormula__new__(arg) ==
    IF arg = true_formula THEN false_formula
    ELSE IF arg = false_formula THEN true_formula
    ELSE IF arg.kind = "NotFormula" THEN arg.arg
    ELSE IF arg.kind \in {"AndFormula", "OrFormula"}
    THEN LET args == iter(arg.args)
             negated == [k \in 1..Len(args) |-> call("NotFormula", <<args[k]>>)]
         IN call(IF arg.kind = "AndFormula" THEN "OrFormula" ELSE "AndFormula", <<negated>>)
    ELSE [kind |-> "NotFormula"]

\* NotFormula(arg): __new__, then __init__ on its result whenever the result
\* is a NotFormula, whether __new__ created it or not
NotFormula(arg) ==
    IF arg = ValueError THEN ValueError
    ELSE LET new == NotFormula__new__(arg)
         IN IF new.kind = "NotFormula" THEN [kind |-> "NotFormula", arg |-> arg] ELSE new

\* a child that is not an EqualityFormula equates argument with no term
not_equated(child, argument) == {}

\* the terms an EqualityFormula child equates with argument
equated(child, argument) ==
    IF child.kind # "EqualityFormula" THEN {}
    ELSE IF child.left = argument THEN {child.right}
    ELSE IF child.right = argument THEN {child.left}
    ELSE {}

\* the last two steps of ExistsFormula.__new__
ExistsFormula_typed(argument, body) ==
    IF Type__eq__(__missing__(_variables_types(body), argument.name), type_results.bottom)
    THEN false_formula
    ELSE [kind |-> "ExistsFormula", argument |-> argument, body |-> body]

\* ExistsFormula.__new__ and __init__.  The first child of an AndFormula body
\* that equates argument with a term is the first in the iteration order of
\* body.args: one of the equated terms.
ExistsFormula(argument, body) ==
    IF body = ValueError THEN ValueError
    ELSE IF body = true_formula \/ body = false_formula THEN body
    ELSE IF body.kind = "OrFormula"
    THEN LET args == iter(body.args)
         IN call("OrFormula",
                 <<[k \in 1..Len(args) |-> call("ExistsFormula", <<argument, args[k]>>)]>>)
    ELSE LET terms == IF body.kind = "EqualityFormula" THEN equated(body, argument)
                      ELSE IF body.kind = "AndFormula"
                      THEN UNION {equated(child, argument) : child \in body.args}
                      ELSE {}
         IN IF terms # {}
            THEN call("substitute", <<body, argument, CHOOSE t \in terms : TRUE>>)
            ELSE ExistsFormula_typed(argument, body)

\* Select.__init__
Select(args, body) ==
    IF body = ValueError THEN ValueError
    ELSE IF body.kind = "Select"
    THEN [kind |-> "Select", args |-> args \o body.args, body |-> body.body]
    ELSE [kind |-> "Select", args |-> args, body |-> body]

\* the direct sub-terms of a term that is not an ExistsFormula or a Select
children(self) ==
    IF self.kind \in {"AndFormula", "OrFormula"} THEN iter(self.args)
    ELSE IF self.kind = "NotFormula" THEN <<self.arg>>
    ELSE IF self.kind = "EqualityFormula" THEN <<self.left, self.right>>
    ELSE IF self.kind = "TripleFormula" THEN <<self.subject, self.predicate, self.object>>
    ELSE <<>>

\* a substitution that does not stop at the variable an ExistsFormula binds
substitute_body(self, var, formula) ==
    call("ExistsFormula", <<self.argument, call("substitute", <<self.body, var, formula>>)>>)

\* ExistsFormula.substitute
ExistsFormula_substitute(self, var, formula) ==
    IF var = self.argument THEN self
    ELSE call("ExistsFormula",
              <<self.argument, call("substitute", <<self.body, var, formula>>)>>)

\* Select.substitute
Select_substitute(self, var, formula) ==
    IF \E k \in 1..Len(self.args) : self.args[k] = var THEN self
    ELSE Select(self.args, call("substitute", <<self.body, var, formula>>))

\* Term.substitute, by class
substitute(self, var, formula) ==
    IF self = ValueError \/ formula = ValueError THEN ValueError
    ELSE IF self.kind = "VariableFormula" THEN (IF self = var THEN formula ELSE self)
    ELSE IF self.kind = "ValueFormula" THEN self
    ELSE IF self.kind = "ExistsFormula" THEN ExistsFormula_substitute(self, var, formula)
    ELSE IF self.kind = "Select" THEN Select_substitute(self, var, formula)
    ELSE LET args == children(self)
             new == [k \in 1..Len(args) |-> call("substitute", <<args[k], var, formula>>)]
         IN IF self.kind = "AndFormula" THEN call("AndFormula", <<new>>)
            ELSE IF self.kind = "OrFormula" THEN call("OrFormula", <<new>>)
            ELSE IF self.kind = "NotFormula" THEN call("NotFormula", <<new[1]>>)
            ELSE IF self.kind = "EqualityFormula" THEN EqualityFormula(new[1], new[2])
            ELSE TripleFormula(new[1], new[2], new[3])

\* Select.__eq__: the body of other after its arguments are renamed one by one
RECURSIVE normalize_body(_, _, _)
normalize_body(self, other, n) ==
    IF n = 0 THEN other.body
    ELSE call("substitute",
              <<normalize_body(self, other, n - 1), other.args[n], self.args[n]>>)

\* __eq__, by class
Term__eq__(self, other) ==
    IF self = ValueError \/ other = ValueError THEN FALSE
    ELSE IF self.kind # other.kind THEN FALSE
    ELSE IF self.kind = "VariableFormula" THEN self.name = other.name
    ELSE IF self.kind = "ValueFormula" THEN self.term = other.term
    ELSE IF self.kind \in {"AndFormula", "OrFormula"}
    THEN frozenset__eq__(self.args, other.args)
    ELSE IF self.kind = "EqualityFormula"
    THEN \E p \in {<<other.left, other.right>>, <<other.right, other.left>>} :
             /\ call("__eq__", <<self.left, p[1]>>)
             /\ call("__eq__", <<self.right, p[2]>>)
    ELSE IF self.kind = "ExistsFormula"
    THEN call("__eq__", <<self.body,
                          call("substitute", <<other.body, other.argument, self.argument>>)>>)
    ELSE IF self.kind = "Select"
    THEN /\ Len(self.args) = Len(other.args)
         /\ call("__eq__", <<self.body, normalize_body(self, other, Len(self.args))>>)
    ELSE LET mine == children(self)
             theirs == children(other)
         IN \A k \in 1..Len(mine) : call("__eq__", <<mine[k], theirs[k]>>)

call(name, arguments) ==
    IF name = "__eq__" THEN Term__eq__(arguments[1], arguments[2])
    ELSE IF name = "substitute" THEN substitute(arguments[1], arguments[2], arguments[3])
    ELSE IF name = "AndFormula" THEN AndFormula(arguments[1])
    ELSE IF name = "OrFormula" THEN OrFormula(arguments[1])
    ELSE IF name = "NotFormula" THEN NotFormula(arguments[1])
    ELSE ExistsFormula(arguments[1], arguments[2])

\* Select.bind and Select.__call__
bind(self, value) ==
    LET body == call("substitute", <<self.body, self.args[1], value>>)
    IN IF Len(self.args) = 1 THEN body ELSE Select(Tail(self.args), body)

\* Select.swap_arguments; key1 and key2 are positions counted from 0
swap_arguments(self, key1, key2) ==
    LET args == [self.args EXCEPT ![key1 + 1] = self.args[key2 + 1],
                                  ![key2 + 1] = self.args[key1 + 1]]
    IN Select(args, self.body)

(***************************************************************************)
(* Two formulas and a Select, built from atoms by the constructors.        *)
(***************************************************************************)
_x == VariableFormula("x")

_y == VariableFormula("y")

_z == VariableFormula("z")

_foo == ValueFormula("foo")

_JohnDoe == ValueFormula("JohnDoe")

_schema_name == ValueFormula("schema_name")

Variables == {_x, _y}

Replacements == {_x, _y, _JohnDoe}

FormulaAtoms ==
    {true_formula, false_formula}
        \cup {TripleFormula(s, _schema_name, o) : s \in {_x, _JohnDoe}, o \in {_x, _y, _foo}}
        \cup {EqualityFormula(_x, _y), EqualityFormula(_x, _foo), EqualityFormula(_foo, _x)}

SelectArgs == {<<_x>>, <<_x, _y>>, <<_y, _x>>}

FormulaIdle ==
    /\ type_results = <<>>
    /\ fa = <<>>
    /\ fb = <<>>
    /\ fs = <<>>
    /\ fm_steps = 0

FormulaInit ==
    /\ type_results = TypeResults
    /\ fa \in FormulaAtoms
    /\ fb \in FormulaAtoms
    /\ fs = Select(<<_x, _y>>, fb)
    /\ fm_steps = 0

FormulaOperands == {"fa", "fb"}

formula_operand(name) == IF name = "fa" THEN fa ELSE fb

\* an operation that raises leaves the variables as they were
assign_fa(result) ==
    /\ result # ValueError
    /\ fm_steps < MaxFormulaSteps
    /\ fa' = result
    /\ fm_steps' = fm_steps + 1
    /\ UNCHANGED <<fb, fs, type_results>>

\* Formula.__and__
apply_AndFormula ==
    /\ \E p, q \in FormulaOperands :
           assign_fa(call("AndFormula", <<(<<formula_operand(p), formula_operand(q)>>)>>))
    /\ UNCHANGED <<qa_vars, req_vars, dis_vars, type_vars,
                   order_vars, kb_vars, fuzzy_vars, pool_vars, tree_vars>>

\* Formula.__or__
apply_OrFormula ==
    /\ \E p, q \in FormulaOperands :
           assign_fa(call("OrFormula", <<(<<formula_operand(p), formula_operand(q)>>)>>))
    /\ UNCHANGED <<qa_vars, req_vars, dis_vars, type_vars,
                   order_vars, kb_vars, fuzzy_vars, pool_vars, tree_vars>>

\* Formula.__invert__
apply_NotFormula ==
    /\ assign_fa(call("NotFormula", <<fa>>))
    /\ UNCHANGED <<qa_vars, req_vars, dis_vars, type_vars,
                   order_vars, kb_vars, fuzzy_vars, pool_vars, tree_vars>>

apply_ExistsFormula ==
    /\ \E argument \in Variables : assign_fa(call("ExistsFormula", <<argument, fa>>))
    /\ UNCHANGED <<qa_vars, req_vars, dis_vars, type_vars,
                   order_vars, kb_vars, fuzzy_vars, pool_vars, tree_vars>>

apply_substitute ==
    /\ \E var \in Variables, formula \in Replacements :
           assign_fa(call("substitute", <<fa, var, formula>>))
    /\ UNCHANGED <<qa_vars, req_vars, dis_vars, type_vars,
                   order_vars, kb_vars, fuzzy_vars, pool_vars, tree_vars>>

apply_Select ==
    /\ fm_steps < MaxFormulaSteps
    /\ \E args \in SelectArgs : fs' = Select(args, fa)
    /\ fm_steps' = fm_steps + 1
    /\ UNCHANGED <<fa, fb, type_results>>
    /\ UNCHANGED <<qa_vars, req_vars, dis_vars, type_vars,
                   order_vars, kb_vars, fuzzy_vars, pool_vars, tree_vars>>

\* Select.__call__: a Select of several arguments gives a smaller Select,
\* a Select of one argument gives a formula
apply_bind ==
    /\ fm_steps < MaxFormulaSteps
    /\ \E value \in Replacements :
           LET result == bind(fs, value) IN
           /\ result # ValueError
           /\ IF result.kind = "Select"
              THEN fs' = result /\ UNCHANGED <<fa, fb, type_results>>
              ELSE fa' = result /\ UNCHANGED <<fb, fs, type_results>>
    /\ fm_steps' = fm_steps + 1
    /\ UNCHANGED <<qa_vars, req_vars, dis_vars, type_vars,
                   order_vars, kb_vars, fuzzy_vars, pool_vars, tree_vars>>

\* Select.swap_arguments on two positions of fs (a position outside the
\* arguments is an IndexError and changes nothing)
apply_swap_arguments ==
    /\ fm_steps < MaxFormulaSteps
    /\ \E key1 \in 0..(Len(fs.args) - 1), key2 \in 0..(Len(fs.args) - 1) :
           fs' = swap_arguments(fs, key1, key2)
    /\ fm_steps' = fm_steps + 1
    /\ UNCHANGED <<fa, fb, type_results>>
    /\ UNCHANGED <<qa_vars, req_vars, dis_vars, type_vars,
                   order_vars, kb_vars, fuzzy_vars, pool_vars, tree_vars>>

FormulaNext ==
    \/ apply_AndFormula
    \/ apply_OrFormula
    \/ apply_NotFormula
    \/ apply_ExistsFormula
    \/ apply_substitute
    \/ apply_Select
    \/ apply_bind
    \/ apply_swap_arguments

(***************************************************************************)
(* Properties of the formulas.  In every state of SpecFormula fa and fb    *)
(* are formulas the constructors return and fs is a Select over one.       *)
(***************************************************************************)
\* the element an AndFormula drops (true), an OrFormula drops (false)
neutral(cls) == IF cls = "AndFormula" THEN true_formula ELSE false_formula

\* the element that decides an AndFormula (false), an OrFormula (true)
absorbing(cls) == IF cls = "AndFormula" THEN false_formula ELSE true_formula

\* C13: AndFormula and OrFormula normalise themselves.  Of no argument they
\* are true (And) and false (Or); of the one argument fa they are fa itself;
\* with the absorbing element among the arguments they are that element;
\* the neutral element is dropped; the args of an argument of the same class
\* are spliced in; and the order of the arguments does not matter.
C13_SelfNormalising ==
    \A cls \in {"AndFormula", "OrFormula"} :
        /\ \A case \in {<<(<<>>), neutral(cls)>>,
                        <<(<<fa>>), fa>>,
                        <<(<<fa, absorbing(cls)>>), absorbing(cls)>>} :
               call(cls, <<case[1]>>) = case[2]
        /\ \A case \in {<<(<<fa, neutral(cls), fb>>), <<fa, fb>> >>,
                        <<(<<fa, fb>>), <<fb, fa>> >>}
                       \cup (IF fa.kind = cls
                             THEN {<<(<<fa, fb>>), iter(fa.args) \o <<fb>> >>}
                             ELSE {}) :
               call("__eq__", <<call(cls, <<case[1]>>), call(cls, <<case[2]>>)>>)

\* C14: construction gives the negation-pushed disjunctive normal form.  For
\* all formulas a, b, c: Not(And([a, b])) == Or([Not(a), Not(b)]),
\* Not(Or([a, b])) == And([Not(a), Not(b)]), Not(Not(a)) == a, Not(true) is
\* false, Not(false) is true, and And([Or([a, b]), c]) == And([c, Or([a, b])])
\* == Or([And([a, c]), And([b, c])]).
C14_NegationPushedDNF ==
    /\ NotFormula(true_formula) = false_formula
    /\ NotFormula(false_formula) = true_formula
    /\ \A a \in {fa, fb}, b \in {fa, fb}, c \in {fa, fb} :
        /\ Term__eq__(NotFormula(AndFormula(<<a, b>>)),
                      OrFormula(<<NotFormula(a), NotFormula(b)>>))
        /\ Term__eq__(NotFormula(OrFormula(<<a, b>>)),
                      AndFormula(<<NotFormula(a), NotFormula(b)>>))
        /\ Term__eq__(NotFormula(NotFormula(a)), a)
        /\ Term__eq__(AndFormula(<<OrFormula(<<a, b>>), c>>),
                      AndFormula(<<c, OrFormula(<<a, b>>)>>))
        /\ Term__eq__(AndFormula(<<OrFormula(<<a, b>>), c>>),
                      OrFormula(<<AndFormula(<<a, c>>), AndFormula(<<b, c>>)>>))

\* C15: normalisation is idempotent under re-construction.  When fa is an
\* AndFormula (built from a list, also one with repeated equal arguments, or
\* returned by substitute), AndFormula(list(fa.args)) == fa; when fa is an
\* OrFormula, OrFormula(list(fa.args)) == fa.
C15_IdempotentReconstruction ==
    /\ fa.kind = "AndFormula" => Term__eq__(AndFormula(iter(fa.args)), fa)
    /\ fa.kind = "OrFormula" => Term__eq__(OrFormula(iter(fa.args)), fa)

\* the terms the conjuncts of body equate var with
equated_terms(body, var) ==
    IF body.kind = "AndFormula" THEN UNION {equated(child, var) : child \in body.args}
    ELSE equated(body, var)

\* the number of ExistsFormula nodes of a term
RECURSIVE exists_count(_)
exists_count(self) ==
    IF self.kind = "ExistsFormula" THEN 1 + exists_count(self.body)
    ELSE IF self.kind = "Select" THEN exists_count(self.body)
    ELSE LET args == children(self)
             RECURSIVE total(_)
             total(k) == IF k = 0 THEN 0 ELSE exists_count(args[k]) + total(k - 1)
         IN total(Len(args))

\* C16: existential elimination.  For a variable x, a term a other than x and
\* a value v, Exists(x, Triple(a, p, x) & Equality(x, v)) ==
\* Exists(x, Triple(a, p, x) & Equality(v, x)) == Triple(a, p, v).  More
\* generally, when a conjunct of fa equates x with a term and the formula
\* with x replaced can be built, Exists(x, fa) is fa with x replaced by
\* such a term, and no ExistsFormula node is added.
C16_ExistentialElimination ==
    /\ \A x \in Variables : \A a \in (Variables \ {x}) \cup {_JohnDoe}, v \in {_foo, _JohnDoe} :
           LET triple == TripleFormula(a, _schema_name, x)
               expected == TripleFormula(a, _schema_name, v)
           IN /\ Term__eq__(ExistsFormula(x, AndFormula(<<triple, EqualityFormula(x, v)>>)),
                            ExistsFormula(x, AndFormula(<<triple, EqualityFormula(v, x)>>)))
              /\ Term__eq__(ExistsFormula(x, AndFormula(<<triple, EqualityFormula(v, x)>>)),
                            expected)
    /\ \A x \in Variables :
           LET result == ExistsFormula(x, fa)
           IN (equated_terms(fa, x) # {} /\ result # ValueError) =>
                  /\ \E term \in equated_terms(fa, x) :
                         result = substitute(fa, x, term)
                  /\ exists_count(result) <= exists_count(fa)

\* C16 witness: fa is the conjunction of a triple about x and an equality of
\* x with "foo", and Exists(x, fa) is the triple about "foo".
C16_Witness ==
    /\ fa.kind = "AndFormula"
    /\ _foo \in equated_terms(fa, _x)
    /\ TripleFormula(_JohnDoe, _schema_name, _x) \in fa.args
    /\ ExistsFormula(_x, fa) = TripleFormula(_JohnDoe, _schema_name, _foo)

\* the type _variables_types infers for var from body
inferred_type(body, var) == __missing__(_variables_types(body), var.name)

\* C17: simplification of Exists.  Exists(x, true) == true and
\* Exists(x, false) == false; when fa is an OrFormula, Exists(x, fa) ==
\* Or([Exists(x, arg) for arg in fa.args]); and Exists(x, fa) == false
\* whenever the type inferred for x from fa is bottom.
C17_ExistsSimplification ==
    \A x \in Variables :
        /\ Term__eq__(ExistsFormula(x, true_formula), true_formula)
        /\ Term__eq__(ExistsFormula(x, false_formula), false_formula)
        /\ fa.kind = "OrFormula" =>
               LET args == iter(fa.args)
               IN Term__eq__(ExistsFormula(x, fa),
                             OrFormula([k \in 1..Len(args) |-> ExistsFormula(x, args[k])]))
        /\ Type__eq__(inferred_type(fa, x), type_results.bottom) =>
               Term__eq__(ExistsFormula(x, fa), false_formula)

\* term with the variables x and y exchanged
swapped(term) == substitute(substitute(substitute(term, _x, _z), _y, _x), _z, _y)

\* the variables that occur free in a term
RECURSIVE free_variables(_)
free_variables(self) ==
    IF self.kind = "VariableFormula" THEN {self}
    ELSE IF self.kind = "ExistsFormula" THEN free_variables(self.body) \ {self.argument}
    ELSE IF self.kind = "Select"
    THEN free_variables(self.body) \ {self.args[k] : k \in 1..Len(self.args)}
    ELSE LET args == children(self)
         IN UNION {free_variables(args[k]) : k \in 1..Len(args)}

\* C18: equality of binders is alpha-equivalence.  For a formula fa that binds
\* no variable itself: Exists(v, fa) == Exists(z, fa with z for v) for the
\* fresh name z, in both directions, and Select([x, y], fa) == Select([y, x],
\* fa with x and y exchanged).  And two ExistsFormula that are not
\* alpha-equivalent, because their free variables differ, are not ==.
C18_AlphaEquivalence ==
    /\ exists_count(fa) = 0 =>
           /\ \A v \in Variables :
                  LET original == ExistsFormula(v, fa)
                      renamed == ExistsFormula(_z, substitute(fa, v, _z))
                  IN original # ValueError =>
                         Term__eq__(original, renamed) /\ Term__eq__(renamed, original)
           /\ Term__eq__(Select(<<_x, _y>>, fa), Select(<<_y, _x>>, swapped(fa)))
    /\ \A v \in Variables, w \in Variables :
           LET mine == ExistsFormula(v, fa)
               theirs == ExistsFormula(w, fb)
           IN (/\ mine.kind = "ExistsFormula"
               /\ theirs.kind = "ExistsFormula"
               /\ free_variables(mine) # free_variables(theirs)) => ~Term__eq__(mine, theirs)

\* the variables a binder binds
bound_variables(self) ==
    IF self.kind = "ExistsFormula" THEN {self.argument}
    ELSE {self.args[k] : k \in 1..Len(self.args)}

\* C19 for the binder t: t.substitute(v, r) is t for a variable v that t
\* binds and every replacement r; for another variable w the result, when
\* there is one, is the binder over the substituted body, and a binder
\* returned for a replacement other than the variables of t binds the same
\* variables as t.
Shadowing(t) ==
    /\ \A v \in bound_variables(t), r \in Replacements : substitute(t, v, r) = t
    /\ \A w \in Variables \ bound_variables(t), r \in Replacements :
           LET result == substitute(t, w, r)
               body == substitute(t.body, w, r)
           IN result # ValueError =>
                  IF t.kind = "Select"
                  THEN result = [kind |-> "Select", args |-> t.args, body |-> body]
                  ELSE /\ result = ExistsFormula(t.argument, body)
                       /\ (r \notin bound_variables(t) /\ result.kind = "ExistsFormula") =>
                              bound_variables(result) = bound_variables(t)

\* C19: variable shadowing, for the Select fs and for fa when it is an
\* ExistsFormula.
C19_VariableShadowing ==
    /\ Shadowing(fs)
    /\ fa.kind = "ExistsFormula" => Shadowing(fa)

\* C19 witness: fa is an ExistsFormula and fs a Select whose bound variable
\* occurs free in the body, and substituting it by JohnDoe returns them
\* unchanged.
C19_Witness ==
    /\ fa.kind = "ExistsFormula"
    /\ fa.argument \in free_variables(fa.body)
    /\ substitute(fa, fa.argument, _JohnDoe) = fa
    /\ fs.args[1] \in free_variables(fs.body)
    /\ substitute(fs, fs.args[1], _JohnDoe) = fs

\* C20 for the binder t: replacing a free variable w of t by a variable r
\* that t binds leaves r free in the result.
CaptureAvoiding(t) ==
    \A w \in free_variables(t), r \in bound_variables(t) :
        LET result == substitute(t, w, r)
        IN result # ValueError => r \in free_variables(result)

\* C20: substitute and Select.bind are capture-avoiding.  For the
\* specification's two examples, Exists(y, Triple(x, name, y)) with y for x
\* and Select((x, y), Triple(x, name, y)) called with y, and on every state:
\* a variable put in place of a free variable of a binder, or of the first
\* argument of a Select, stays free in the result even if the binder, or the
\* rest of the Select, binds a variable of that name.
C20_CaptureAvoiding ==
    /\ _y \in free_variables(substitute(ExistsFormula(_y, TripleFormula(_x, _schema_name, _y)), _x, _y))
    /\ _y \in free_variables(bind(Select(<<_x, _y>>, TripleFormula(_x, _schema_name, _y)), _y))
    /\ CaptureAvoiding(fs)
    /\ fa.kind = "ExistsFormula" => CaptureAvoiding(fa)
    /\ \A r \in bound_variables(fs) \ {fs.args[1]} :
           LET result == bind(fs, r)
           IN (fs.args[1] \in free_variables(fs.body) /\ result # ValueError) =>
                  r \in free_variables(result)

\* the AndFormula and OrFormula nodes of a term are in canonical form
RECURSIVE canonical(_)
canonical(self) ==
    /\ self.kind \in {"AndFormula", "OrFormula"} =>
           /\ Cardinality(self.args) >= 2
           /\ \A arg \in self.args :
                  /\ arg \notin {true_formula, false_formula}
                  /\ arg.kind # self.kind
                  /\ self.kind = "AndFormula" => arg.kind # "OrFormula"
    /\ IF self.kind \in {"ExistsFormula", "Select"} THEN canonical(self.body)
       ELSE LET args == children(self)
            IN \A k \in 1..Len(args) : canonical(args[k])

\* C27: canonical-form invariant.  Every AndFormula and OrFormula node of
\* the formulas built by the constructors, the operators and substitute has
\* at least two distinct arguments, none of them true, false or a node of
\* the same kind, and no AndFormula has an OrFormula argument.
C27_CanonicalForm == canonical(fa) /\ canonical(fs)

\* a == b and b == a agree
symmetric(a, b) == Term__eq__(a, b) <=> Term__eq__(b, a)

\* C28: term equality is symmetric, for the formulas fa and fb, for the
\* ExistsFormula built over them with either variable, and for the Select fs
\* against the Select of one or two arguments over fa.
C28_EqualitySymmetric ==
    /\ symmetric(fa, fb)
    /\ \A v \in Variables, w \in Variables :
           LET a == ExistsFormula(v, fa)
               b == ExistsFormula(w, fb)
           IN (a # ValueError /\ b # ValueError) => symmetric(a, b)
    /\ \A args \in SelectArgs : symmetric(fs, Select(args, fa))

\* the values bound to the arguments of a Select: terms in which no variable
\* of the Select occurs
BindValues == {_JohnDoe, _foo, _z}

\* C22 for the Select s: binding its arguments in order gives Selects of one
\* argument less each time, over the remaining arguments, and at last a
\* formula in which no argument of s is free; swapping two arguments twice
\* gives a Select == s, and swapping (0, 1) is == to swapping (1, 0).
BindingAndSwapping(s) ==
    /\ \A v1 \in BindValues :
           LET first == bind(s, v1)
           IN first # ValueError =>
                  IF Len(s.args) = 1
                  THEN /\ first.kind # "Select"
                       /\ free_variables(first) \cap bound_variables(s) = {}
                  ELSE /\ first.kind = "Select"
                       /\ first.args = Tail(s.args)
                       /\ \A v2 \in BindValues :
                              LET second == bind(first, v2)
                              IN second # ValueError =>
                                     /\ second.kind # "Select"
                                     /\ free_variables(second) \cap bound_variables(s) = {}
    /\ \A key1 \in 0..(Len(s.args) - 1), key2 \in 0..(Len(s.args) - 1) :
           Term__eq__(swap_arguments(swap_arguments(s, key1, key2), key1, key2), s)
    /\ Len(s.args) = 2 => Term__eq__(swap_arguments(s, 0, 1), swap_arguments(s, 1, 0))

\* C22: Select binding and swapping, for the Select fs.
C22_SelectBindingSwapping == BindingAndSwapping(fs)


(***************************************************************************)
(* Order operators (database/formula.py): GreaterFormula,                  *)
(* GreaterOrEqualFormula, LowerFormula and LowerOrEqualFormula share the   *)
(* constructor of BinaryOrderOperatorFormula.  The types of the operands   *)
(* are values of the Type section.                                         *)
(***************************************************************************)
OrderClasses == {"GreaterFormula", "GreaterOrEqualFormula", "LowerFormula", "LowerOrEqualFormula"}

\* The literals of the operands: two decimals, an integer, a year, a
\* dateTime, a string and a boolean.
OrderLiterals == {"1", "2", "3", "2016", "2017-01-01T00:00:00", "foo", "true"}

\* Literal.datatype of these literals
literal_datatype(term) ==
    CASE term \in {"1", "2"} -> xsd_decimal
      [] term = "3" -> xsd_integer
      [] term = "2016" -> xsd_gYear
      [] term = "2017-01-01T00:00:00" -> xsd_dateTime
      [] term = "true" -> xsd_boolean
      [] OTHER -> xsd_string

\* The operands: the literals, the individual JohnDoe and two variables.
OrderOperands ==
    {ValueFormula(term) : term \in OrderLiterals \cup Individuals} \cup {_x, _y}

\* Formula.type of an operand: VariableFormula.type and ValueFormula.type
operand_type(formula) ==
    IF formula.kind = "VariableFormula" THEN top(1)
    ELSE IF formula.term \in Individuals THEN union_of(types(formula.term))
    ELSE from_entity(literal_datatype(formula.term))

_numeric_type == from_entity(platypus_numeric)

_calendar_type == from_entity(platypus_calendar)

_duration_type == from_entity(xsd_duration)

\* BinaryOrderOperatorFormula._get_type_for_ordering
_get_type_for_ordering(formula) ==
    LET formula_type == operand_type(formula)
        numeric == IF ~__eq__(__and__(formula_type, _numeric_type), bottom)
                   THEN __or__(bottom, _numeric_type) ELSE bottom
        calendar == IF ~__eq__(__and__(formula_type, _calendar_type), bottom)
                    THEN __or__(numeric, _calendar_type) ELSE numeric
    IN IF ~__eq__(__and__(formula_type, _duration_type), bottom)
       THEN __or__(calendar, _duration_type) ELSE calendar

\* BinaryOrderOperatorFormula.__init__, called for the class cls
BinaryOrderOperatorFormula(cls, left, right) ==
    IF __eq__(_get_type_for_ordering(left), bottom) THEN ValueError
    ELSE IF __eq__(_get_type_for_ordering(right), bottom) THEN ValueError
    ELSE [kind |-> cls, left |-> left, right |-> right]

\* VariableFormula.substitute and ValueFormula.substitute
operand_substitute(self, var, formula) == IF self = var THEN formula ELSE self

\* BinaryOrderOperatorFormula.substitute
BinaryOrderOperatorFormula_substitute(self, var, formula) ==
    BinaryOrderOperatorFormula(self.kind, operand_substitute(self.left, var, formula),
                               operand_substitute(self.right, var, formula))

OrderIdle ==
    /\ order_left = <<>>
    /\ order_right = <<>>
    /\ order_formula = <<>>
    /\ order_pc = "idle"

OrderInit ==
    /\ order_left \in OrderOperands
    /\ order_right \in OrderOperands
    /\ order_formula = <<>>
    /\ order_pc = "operands"

\* cls(order_left, order_right) for one of the four classes
construct_order_formula ==
    /\ order_pc = "operands"
    /\ \E cls \in OrderClasses :
           order_formula' = BinaryOrderOperatorFormula(cls, order_left, order_right)
    /\ order_pc' = "constructed"
    /\ UNCHANGED <<order_left, order_right>>
    /\ UNCHANGED <<qa_vars, req_vars, dis_vars, type_vars, formula_vars,
                   kb_vars, fuzzy_vars, pool_vars, tree_vars>>

\* order_formula.substitute(var, formula): the operands are substituted and
\* the constructor of the same class is called with them
substitute_order_formula ==
    /\ order_pc = "constructed"
    /\ order_formula # ValueError
    /\ \E var \in {_x, _y}, formula \in OrderOperands :
           /\ var \in {order_formula.left, order_formula.right}
           /\ order_left' = operand_substitute(order_formula.left, var, formula)
           /\ order_right' = operand_substitute(order_formula.right, var, formula)
           /\ order_formula' = BinaryOrderOperatorFormula_substitute(order_formula, var, formula)
    /\ order_pc' = "substituted"
    /\ UNCHANGED <<qa_vars, req_vars, dis_vars, type_vars, formula_vars,
                   kb_vars, fuzzy_vars, pool_vars, tree_vars>>

OrderNext ==
    \/ construct_order_formula
    \/ substitute_order_formula

\* the categories an operand is orderable under
OrderCategories == {_numeric_type, _calendar_type, _duration_type}

categories(formula) ==
    {category \in OrderCategories : ~__eq__(__and__(operand_type(formula), category), bottom)}

\* C21: the constructor of an order operator raises ValueError unless both
\* operands are orderable under one shared category among numeric, calendar
\* and duration: once the constructor has been called with order_left and
\* order_right, directly or by substitute, it has raised exactly when the
\* two operands have no category in common.
C21_OrderableOperands ==
    order_pc \in {"constructed", "substituted"} =>
        (order_formula = ValueError <=>
             categories(order_left) \cap categories(order_right) = {})


(***************************************************************************)
(* KnowledgeBase.build_interpretation (database/model.py).                 *)
(*                                                                         *)
(* evaluate_term is implemented by the knowledge bases; what it does is an *)
(* input: it raises EvaluationError or returns a list of tuples.  A term   *)
(* is [args, found]: args is the number of arguments of the Select (0 for  *)
(* a term that is not a Select) and found tells whether its body has a     *)
(* TripleFormula whose object is the first argument.                       *)
(***************************************************************************)
MaxResults == 2

MaxTupleLen == 3

KBTerms == [args : 0..2, found : BOOLEAN]

KBValues == {"a", "b"}

\* the tuples evaluate_term may return
RECURSIVE TuplesOfLen(_)
TuplesOfLen(n) ==
    IF n = 0 THEN {<<>>}
    ELSE {Append(t, v) : t \in TuplesOfLen(n - 1), v \in KBValues}

KBTuples == UNION {TuplesOfLen(n) : n \in 1..MaxTupleLen}

NoInterpretation == [interpretation |-> <<>>, results |-> <<>>, built |-> FALSE]

\* QAInterpretation.__init__
QAInterpretation(interpretation, results) ==
    [interpretation |-> interpretation, results |-> results, built |-> TRUE]

\* QAInterpretationResult.__init__
QAInterpretationResult(result, context_subject, context_predicate) ==
    [result |-> result, context_subject |-> context_subject,
     context_predicate |-> context_predicate]

EvaluationError == [raised |-> "EvaluationError"]

NoException == [raised |-> "none"]

\* KnowledgeBase._add_context_variables
_add_context_variables(term) ==
    IF term.args = 0 THEN term
    ELSE IF term.found THEN [args |-> 3, found |-> TRUE]
    ELSE term

\* KnowledgeBase._tuple_to_result
_tuple_to_result(result) ==
    IF Len(result) = 1 THEN QAInterpretationResult(result[1], "None", "None")
    ELSE IF Len(result) = 3 THEN QAInterpretationResult(result[3], result[1], result[2])
    ELSE EvaluationError

KBIdle ==
    /\ kb_term = <<>>
    /\ kb_evaluated = <<>>
    /\ kb_tuples = <<>>
    /\ kb_interpretation = NoInterpretation
    /\ kb_exc = NoException
    /\ kb_pc = "idle"

KBInit ==
    /\ kb_term \in KBTerms
    /\ kb_evaluated = <<>>
    /\ kb_tuples = <<>>
    /\ kb_interpretation = NoInterpretation
    /\ kb_exc = NoException
    /\ kb_pc = "build_interpretation"

\* build_interpretation, line 83: evaluate_term is called with the term
\* _add_context_variables gives.  It raises EvaluationError, which nothing
\* in build_interpretation catches, or returns up to MaxResults tuples of
\* up to MaxTupleLen values.
evaluate_term ==
    /\ kb_pc = "build_interpretation"
    /\ kb_evaluated' = _add_context_variables(kb_term)
    /\ \/ /\ kb_exc' = EvaluationError
          /\ kb_pc' = "raised"
          /\ UNCHANGED kb_tuples
       \/ \E n \in 0..MaxResults : \E results \in [1..n -> KBTuples] :
              /\ kb_tuples' = results
              /\ kb_pc' = "results"
              /\ UNCHANGED kb_exc
    /\ UNCHANGED <<kb_term, kb_interpretation>>
    /\ UNCHANGED <<qa_vars, req_vars, dis_vars, type_vars, formula_vars,
                   order_vars, fuzzy_vars, pool_vars, tree_vars>>

\* build_interpretation, line 84: the list of the results is built; the
\* EvaluationError of _tuple_to_result leaves the comprehension and
\* build_interpretation.
build_interpretation ==
    /\ kb_pc = "results"
    /\ IF \E k \in 1..Len(kb_tuples) : _tuple_to_result(kb_tuples[k]) = EvaluationError
       THEN /\ kb_exc' = EvaluationError
            /\ kb_pc' = "raised"
            /\ UNCHANGED kb_interpretation
       ELSE /\ kb_interpretation' =
                   QAInterpretation(kb_term, [k \in 1..Len(kb_tuples) |->
                                                  _tuple_to_result(kb_tuples[k])])
            /\ kb_pc' = "returned"
            /\ UNCHANGED kb_exc
    /\ UNCHANGED <<kb_term, kb_evaluated, kb_tuples>>
    /\ UNCHANGED <<qa_vars, req_vars, dis_vars, type_vars, formula_vars,
                   order_vars, fuzzy_vars, pool_vars, tree_vars>>

KBNext ==
    \/ evaluate_term
    \/ build_interpretation

\* C23: build_interpretation maps evaluation failures to empty results.  It
\* never ends with an exception, and when evaluate_term raised
\* EvaluationError or a tuple of the results has an unexpected length, it
\* returned an interpretation of the term with an empty list of results.
C23_FailuresGiveEmptyResults ==
    /\ kb_exc = NoException
    /\ kb_pc \notin {"build_interpretation", "results"} =>
           /\ kb_pc = "returned"
           /\ kb_interpretation.built
           /\ kb_interpretation.interpretation = kb_term
           /\ (\E k \in 1..Len(kb_tuples) : Len(kb_tuples[k]) \notin {1, 3}) =>
                  kb_interpretation.results = <<>>


(***************************************************************************)
(* WikidataKnowledgeBase.relations_from_labels (database/wikidata.py).     *)
(*                                                                         *)
(* A label is the sequence of its characters.  _relations_for_label of the *)
(* language is a function from the reference labels, in lower case, to the *)
(* set of their relations; the list returned is kept as a set, its order   *)
(* being the iteration order of a Python set.                              *)
(***************************************************************************)
MaxInputLabels == 2

\* the reference labels and their relations: a label of two characters, one
\* of three, one of four and one of six
ReferenceLabels ==
    (<<"a", "b">> :> {"P1"}) @@ (<<"a", "b", "b">> :> {"P2"})
        @@ (<<"a", "a", "a", "a">> :> {"P3", "P4"})
        @@ (<<"a", "b", "a", "b", "a", "b">> :> {"P5"})

\* the labels given by the caller
InputLabels ==
    {<<"a">>, <<"a", "b">>, <<" ", "A", "b", " ">>, <<"b", "b">>, <<"a", "b", "a">>,
     <<"a", "b", "b", "a">>, <<"a", "a", "a", "b">>, <<"b", "b", "b", "b">>,
     <<"a", "b", "a", "b", "a">>, <<"A", "B", "A", "B", "A", "B">>,
     <<"a", "b", "a", "b", "a", "b", "b">>, <<"b", "b", "a", "b", "a", "b", "b">>,
     <<"b", "b", "b", "b", "b", "b", "b">>, <<"a", "a", "a", "a", "b", "b", "b">>}

\* str.strip
RECURSIVE strip(_)
strip(label) ==
    IF label = <<>> THEN label
    ELSE IF Head(label) = " " THEN strip(Tail(label))
    ELSE IF label[Len(label)] = " " THEN strip(SubSeq(label, 1, Len(label) - 1))
    ELSE label

\* str.lower
lower(label) ==
    [k \in 1..Len(label) |->
        IF label[k] = "A" THEN "a" ELSE IF label[k] = "B" THEN "b" ELSE label[k]]

Min3(a, b, c) == IF a <= b /\ a <= c THEN a ELSE IF b <= c THEN b ELSE c

\* editdistance.eval: the Levenshtein distance, computed row by row.  row
\* holds the first columns of the row of the character c, prev the row above.
RECURSIVE next_row(_, _, _, _)
next_row(prev, c, b, row) ==
    IF Len(row) = Len(b) + 1 THEN row
    ELSE LET j == Len(row)
             cost == IF b[j] = c THEN 0 ELSE 1
         IN next_row(prev, c, b,
                     Append(row, Min3(prev[j + 1] + 1, row[j] + 1, prev[j] + cost)))

RECURSIVE rows(_, _, _, _)
rows(a, b, k, prev) ==
    IF k > Len(a) THEN prev[Len(b) + 1]
    ELSE rows(a, b, k + 1, next_row(prev, a[k], b, <<k>>))

editdistance_eval(a, b) == rows(a, b, 1, [j \in 1..(Len(b) + 1) |-> j - 1])

\* the labels, small ones included
all_labels(labels, distance) == labels

\* we do not want to be fuzzy with too small labels
labels_to_match(labels, distance) ==
    {l \in labels : Len(l) >= 3 * distance + 1}

\* WikidataKnowledgeBase._relations_by_edit_distance
_relations_by_edit_distance(relations, input_labels, distance) ==
    UNION {relations[ref_label] : ref_label \in
               {r \in DOMAIN relations :
                    \E input_label \in input_labels :
                        editdistance_eval(input_label, r) = distance}}

FuzzyIdle ==
    /\ fz_relations_for_label = <<>>
    /\ fz_input = <<>>
    /\ fz_labels = {}
    /\ fz_distance = 0
    /\ fz_result = {}
    /\ fz_pc = "idle"

\* the knowledge base holds some of the reference labels and the caller
\* gives one label or more
FuzzyInit ==
    /\ \E kept \in SUBSET DOMAIN ReferenceLabels :
           fz_relations_for_label = [l \in kept |-> ReferenceLabels[l]]
    /\ \E n \in 1..MaxInputLabels : fz_input \in [1..n -> InputLabels]
    /\ fz_labels = {}
    /\ fz_distance = 0
    /\ fz_result = {}
    /\ fz_pc = "relations_from_labels"

\* relations_from_labels, line 399: the labels are stripped and put in
\* lower case
normalize_labels ==
    /\ fz_pc = "relations_from_labels"
    /\ fz_labels' = {lower(strip(fz_input[k])) : k \in 1..Len(fz_input)}
    /\ fz_distance' = 0
    /\ fz_pc' = "for_distance"
    /\ UNCHANGED <<fz_relations_for_label, fz_input, fz_result>>
    /\ UNCHANGED <<qa_vars, req_vars, dis_vars, type_vars, formula_vars,
                   order_vars, kb_vars, pool_vars, tree_vars>>

\* relations_from_labels, lines 400-406: one iteration of the loop over
\* range(0, 3), and the return [] that follows the loop
for_distance ==
    /\ fz_pc = "for_distance"
    /\ IF fz_distance >= 3
       THEN /\ fz_result' = {}
            /\ fz_pc' = "done"
            /\ UNCHANGED fz_distance
       ELSE LET relations ==
                    _relations_by_edit_distance(fz_relations_for_label,
                                                labels_to_match(fz_labels, fz_distance),
                                                fz_distance)
            IN IF relations # {}
               THEN /\ fz_result' = relations
                    /\ fz_pc' = "done"
                    /\ UNCHANGED fz_distance
               ELSE /\ fz_distance' = fz_distance + 1
                    /\ UNCHANGED <<fz_result, fz_pc>>
    /\ UNCHANGED <<fz_relations_for_label, fz_input, fz_labels>>
    /\ UNCHANGED <<qa_vars, req_vars, dis_vars, type_vars, formula_vars,
                   order_vars, kb_vars, pool_vars, tree_vars>>

FuzzyNext ==
    \/ normalize_labels
    \/ for_distance

\* the reference labels at edit distance d of an input label, stripped and
\* in lower case, of 3d + 1 characters or more
matched(d) ==
    {r \in DOMAIN fz_relations_for_label :
         \E k \in 1..Len(fz_input) :
             LET l == lower(strip(fz_input[k]))
             IN Len(l) >= 3 * d + 1 /\ editdistance_eval(l, r) = d}

relations_at(d) == UNION {fz_relations_for_label[r] : r \in matched(d)}

\* C24: fuzzy relation lookup.  Once relations_from_labels has returned, its
\* result is the relations matched at the smallest distance d in {0, 1, 2}
\* at which a label matches, exact matches first, and nothing when there is
\* none; hence no relation is returned for a label at distance 1 of a
\* reference label of two characters, the relations of a reference label of
\* six characters at distance 1 of an input label are returned when nothing
\* matches exactly, and every relation returned is that of a reference label
\* at distance 2 or less of an input label.
C24_FuzzyLookup ==
    fz_pc = "done" =>
        /\ \A d \in 0..2 :
               (matched(d) # {} /\ \A smaller \in 0..(d - 1) : matched(smaller) = {}) =>
                   fz_result = relations_at(d)
        /\ (\A d \in 0..2 : matched(d) = {}) => fz_result = {}
        /\ \A r \in DOMAIN fz_relations_for_label, k \in 1..Len(fz_input) :
               LET l == lower(strip(fz_input[k]))
               IN editdistance_eval(l, r) = 1 =>
                      /\ (Len(r) = 2 /\ matched(0) = {} /\ matched(1) = {} /\ matched(2) = {}) =>
                             fz_relations_for_label[r] \cap fz_result = {}
                      /\ (Len(r) = 6 /\ matched(0) = {}) =>
                             fz_relations_for_label[r] \subseteq fz_result
        /\ \A relation \in fz_result :
               \E r \in DOMAIN fz_relations_for_label, k \in 1..Len(fz_input) :
                   /\ relation \in fz_relations_for_label[r]
                   /\ editdistance_eval(lower(strip(fz_input[k])), r) <= 2
        /\ editdistance_eval(<<"a", "b", "a">>, <<"a", "b">>) = 1
        /\ editdistance_eval(<<"a", "b", "a", "b", "a">>, <<"a", "b", "a", "b", "a", "b">>) = 1
        /\ editdistance_eval(<<"b", "b", "b", "b">>, <<"a", "a", "a", "a">>) = 4
        /\ editdistance_eval(<<"a", "a", "a", "a", "b", "b", "b">>, <<"a", "a", "a", "a">>) = 3

\* C24 witness: the knowledge base has the labels "ab" and "ababab"; the
\* input labels are "a", at distance 1 of "ab", and "ababa", at distance 1
\* of "ababab"; the relation of "ababab" alone has been returned.
C24_Witness ==
    /\ fz_pc = "done"
    /\ fz_input = << <<"a">>, <<"a", "b", "a", "b", "a">> >>
    /\ DOMAIN fz_relations_for_label = {<<"a", "b">>, <<"a", "b", "a", "b", "a", "b">>}
    /\ fz_distance = 1
    /\ fz_result = {"P5"}


(***************************************************************************)
(* LazyThreadPoolExecutor.map_first_with_result (qa.py, request_handler.py)*)
(* and _first_future_with_cond (request_handler.py).                       *)
(*                                                                         *)
(* The calling thread submits the tasks and then waits for the futures in  *)
(* submission order; the worker threads of the ThreadPoolExecutor take the *)
(* pending work items in queue order, max_workers at a time, and finish in *)
(* any order.  What a task does is an input: it returns a value for which  *)
(* the condition holds, a value for which it does not, or it raises.       *)
(***************************************************************************)
MaxFutures == 3

max_workers == 2

PoolFunctions == {"map_first_with_result", "_first_future_with_cond"}

TaskOutcomes == {"truthy", "falsy", "raises"}

\* what Future.result() gives for the finished task t: its value or its exception
fn(tasks, t) ==
    IF tasks[t] = "raises"
    THEN [kind |-> "exception", task |-> t, truthy |-> FALSE]
    ELSE [kind |-> "value", task |-> t, truthy |-> (tasks[t] = "truthy")]

\* bool and RequestHandler._has_resource, the conditions of the callers
condition(result) == result.truthy

default == [kind |-> "default", task |-> 0, truthy |-> FALSE]

NoResult == [kind |-> "none", task |-> 0, truthy |-> FALSE]

\* ThreadPoolExecutor.submit: a pending future
submit(t) == [state |-> "PENDING", result |-> NoResult]

\* Future.cancel: a future that runs or has finished cannot be cancelled
cancel(future) ==
    IF future.state \in {"RUNNING", "FINISHED"}
    THEN future
    ELSE [future EXCEPT !.state = "CANCELLED"]

cancel_all(futs) == [t \in 1..Len(futs) |-> cancel(futs[t])]

PoolIdle ==
    /\ pool_fn = "none"
    /\ pool_tasks = <<>>
    /\ futures = <<>>
    /\ pool_k = 0
    /\ pool_result = NoResult
    /\ finished = <<>>
    /\ pool_pc = "idle"

PoolInit ==
    /\ pool_fn \in PoolFunctions
    /\ \E n \in 1..MaxFutures : pool_tasks \in [1..n -> TaskOutcomes]
    /\ futures = <<>>
    /\ pool_k = 0
    /\ pool_result = NoResult
    /\ finished = <<>>
    /\ pool_pc = "submit"

\* fs = [self.submit(fn, *args) for args in iterable]
submit_all ==
    /\ pool_pc = "submit"
    /\ futures' = [t \in 1..Len(pool_tasks) |-> submit(t)]
    /\ pool_k' = 1
    /\ pool_pc' = "for_future"
    /\ UNCHANGED <<pool_fn, pool_tasks, pool_result, finished>>
    /\ UNCHANGED <<qa_vars, req_vars, dis_vars, type_vars, formula_vars,
                   order_vars, kb_vars, fuzzy_vars, tree_vars>>

\* a free worker thread takes the first work item of the queue whose future
\* has not been cancelled
worker_run ==
    /\ Cardinality({t \in 1..Len(futures) : futures[t].state = "RUNNING"}) < max_workers
    /\ \E t \in 1..Len(futures) :
           /\ futures[t].state = "PENDING"
           /\ \A u \in 1..(t - 1) : futures[u].state # "PENDING"
           /\ futures' = [futures EXCEPT ![t].state = "RUNNING"]
    /\ UNCHANGED <<pool_fn, pool_tasks, pool_k, pool_result, finished, pool_pc>>
    /\ UNCHANGED <<qa_vars, req_vars, dis_vars, type_vars, formula_vars,
                   order_vars, kb_vars, fuzzy_vars, tree_vars>>

\* a running task returns or raises: its future is finished
worker_finish ==
    /\ \E t \in 1..Len(futures) :
           /\ futures[t].state = "RUNNING"
           /\ futures' = [futures EXCEPT ![t] = [state |-> "FINISHED", result |-> fn(pool_tasks, t)]]
           /\ finished' = Append(finished, t)
    /\ UNCHANGED <<pool_fn, pool_tasks, pool_k, pool_result, pool_pc>>
    /\ UNCHANGED <<qa_vars, req_vars, dis_vars, type_vars, formula_vars,
                   order_vars, kb_vars, fuzzy_vars, tree_vars>>

\* one iteration of "for future in futs": future.result() waits for the future
\* and returns its value or raises its exception.  map_first_with_result
\* cancels the futures in its finally clause, _first_future_with_cond
\* before it returns a result.
future_result ==
    /\ pool_pc = "for_future"
    /\ pool_k <= Len(futures)
    /\ futures[pool_k].state = "FINISHED"
    /\ LET result == futures[pool_k].result
       IN IF result.kind = "exception"
          THEN /\ pool_result' = result
               /\ pool_pc' = "raised"
               /\ futures' = IF pool_fn = "map_first_with_result" THEN cancel_all(futures) ELSE futures
               /\ UNCHANGED pool_k
          ELSE IF condition(result)
          THEN /\ pool_result' = result
               /\ pool_pc' = "returned"
               /\ futures' = cancel_all(futures)
               /\ UNCHANGED pool_k
          ELSE IF pool_k = Len(futures)
          THEN /\ pool_result' = default
               /\ pool_pc' = "returned"
               /\ futures' = IF pool_fn = "map_first_with_result" THEN cancel_all(futures) ELSE futures
               /\ UNCHANGED pool_k
          ELSE /\ pool_k' = pool_k + 1
               /\ UNCHANGED <<pool_result, pool_pc, futures>>
    /\ UNCHANGED <<pool_fn, pool_tasks, finished>>
    /\ UNCHANGED <<qa_vars, req_vars, dis_vars, type_vars, formula_vars,
                   order_vars, kb_vars, fuzzy_vars, tree_vars>>

PoolNext ==
    \/ submit_all
    \/ worker_run
    \/ worker_finish
    \/ future_result

\* the tasks whose result satisfies the condition
satisfying == {t \in 1..Len(pool_tasks) : pool_tasks[t] = "truthy"}

lowest(S) == CHOOSE t \in S : \A u \in S : t <= u

first_match == IF satisfying = {} THEN default ELSE fn(pool_tasks, lowest(satisfying))

\* whenever the call returns, it returns the first match, whatever the order
\* in which the tasks finished
FirstMatchWhenReturned ==
    pool_pc = "returned" => pool_result = first_match

\* C26: first-match selection.  Once the call is over, it has returned the
\* result of the lowest-index task whose result satisfies the condition, the
\* default when there is none, whatever the order in which the worker
\* threads finished; the result of a task is not returned while a task of
\* lower index satisfies the condition.
C26_FirstMatchSelection ==
    pool_pc \in {"returned", "raised"} =>
        /\ pool_pc = "returned"
        /\ pool_result = first_match
        /\ \A t \in satisfying : \A u \in (t + 1)..Len(pool_tasks) :
               pool_result # fn(pool_tasks, u)

\* the first task raised, the second satisfies the condition and finished
\* first: the call raised the exception of the first
C26_Raised ==
    /\ pool_pc = "raised"
    /\ pool_tasks = <<"raises", "truthy">>
    /\ finished = <<2, 1>>
    /\ pool_result = fn(pool_tasks, 1)

\* a task of higher index finished before the first match
C26_OutOfOrder ==
    /\ pool_pc = "returned"
    /\ pool_tasks = <<"falsy", "truthy", "truthy">>
    /\ finished = <<2, 1>>
    /\ pool_result = fn(pool_tasks, 2)


(***************************************************************************)
(* GrammaticalAnalyzer._token_with_dependency_to_trees                     *)
(* (analyzer/grammatical_analyzer.py) on the tokens of nlp/model.py.       *)
(*                                                                         *)
(* A token is [word, lemma, ud_pos, ud_dependency, left_children,          *)
(* right_children], as SimpleToken builds it; a dependency is the tuple of *)
(* its UDDependency value.                                                 *)
(***************************************************************************)
MaxChildren == 2

nmod == <<"nmod">>

nmod_poss == <<"nmod", "poss">>

amod == <<"amod">>

root == <<"root">>

NOUN == "NOUN"

\* UDDependency.__ge__, which Python calls for other <= self
UDDependency__ge__(self, other) ==
    Len(self) <= Len(other) /\ self = SubSeq(other, 1, Len(self))

UDDependency__le__(self, other) == UDDependency__ge__(other, self)

SimpleToken(word, lemma, ud_pos, ud_dependency, left_children, right_children) ==
    [word |-> word, lemma |-> lemma, ud_pos |-> ud_pos, ud_dependency |-> ud_dependency,
     left_children |-> left_children, right_children |-> right_children]

\* Token.__eq__: the lemma is not compared
RECURSIVE Token__eq__(_, _)
Token__eq__(self, other) ==
    /\ self.word = other.word
    /\ self.ud_pos = other.ud_pos
    /\ self.ud_dependency = other.ud_dependency
    /\ Len(self.left_children) = Len(other.left_children)
    /\ Len(self.right_children) = Len(other.right_children)
    /\ \A k \in 1..Len(self.left_children) : Token__eq__(self.left_children[k], other.left_children[k])
    /\ \A k \in 1..Len(self.right_children) : Token__eq__(self.right_children[k], other.right_children[k])

\* Token.subtree: the tokens under a token, in the order of the sentence
RECURSIVE subtree(_)
subtree(self) ==
    concat([k \in 1..Len(self.left_children) |-> subtree(self.left_children[k])])
    \o <<self>>
    \o concat([k \in 1..Len(self.right_children) |-> subtree(self.right_children[k])])

reversed(nodes) == [k \in 1..Len(nodes) |-> nodes[Len(nodes) + 1 - k]]

RECURSIVE _nodes_before(_, _, _)
_nodes_before(nodes, node, include) ==
    IF nodes = <<>> THEN <<>>
    ELSE IF Token__eq__(Head(nodes), node)
    THEN IF include THEN <<Head(nodes)>> ELSE <<>>
    ELSE <<Head(nodes)>> \o _nodes_before(Tail(nodes), node, include)

_nodes_after(nodes, node, include) ==
    reversed(_nodes_before(reversed(nodes), node, include))

\* results = [[]]; for each list, every element appended to every old result
RECURSIVE _list_product_from(_, _)
_list_product_from(lists, results) ==
    IF lists = <<>> THEN results
    ELSE _list_product_from(
             Tail(lists),
             concat([e \in 1..Len(Head(lists)) |->
                        [o \in 1..Len(results) |-> Append(results[o], Head(lists)[e])]]))

_list_product(lists) == _list_product_from(lists, << <<>> >>)

\* the positions of the right children of node that are nmod dependencies
nmod_children(node) ==
    {c \in 1..Len(node.right_children) :
         UDDependency__le__(node.right_children[c].ud_dependency, nmod)}

Last(S) == CHOOSE c \in S : \A d \in S : d <= c

RECURSIVE _move_up_nmod_dependencies_from(_, _)
_move_up_nmod_dependencies_from(nodes, k) ==
    IF k > Len(nodes) THEN <<nodes>>
    ELSE LET node == nodes[k]
         IN IF UDDependency__le__(node.ud_dependency, nmod)
            THEN IF nmod_children(node) # {}
                 THEN \* the first nmod child met in reversed(node.right_children)
                      LET child == node.right_children[Last(nmod_children(node))]
                      IN <<nodes>> \o _move_up_nmod_dependencies_from(
                             _nodes_before(nodes, node, FALSE)
                             \o <<SimpleToken(node.word, node.lemma, node.ud_pos, node.ud_dependency,
                                              node.left_children,
                                              _nodes_before(node.right_children, child, FALSE)),
                                  child>>
                             \o _nodes_after(nodes, node, FALSE),
                             1)
                 ELSE <<nodes>>  \* break
            ELSE _move_up_nmod_dependencies_from(nodes, k + 1)

_move_up_nmod_dependencies(nodes) == _move_up_nmod_dependencies_from(nodes, 1)

RECURSIVE _token_with_dependency_to_trees(_, _)
_token_with_dependency_to_trees(token, ud_dependency) ==
    LET lefts == _list_product(
                     [k \in 1..Len(token.left_children) |->
                         _token_with_dependency_to_trees(token.left_children[k],
                                                         token.left_children[k].ud_dependency)])
        products == _list_product(
                        [k \in 1..Len(token.right_children) |->
                            _token_with_dependency_to_trees(token.right_children[k],
                                                            token.right_children[k].ud_dependency)])
        rights == concat([k \in 1..Len(products) |-> _move_up_nmod_dependencies(products[k])])
    IN \* itertools.product: the right children vary fastest
       concat([l \in 1..Len(lefts) |->
                  [r \in 1..Len(rights) |->
                      SimpleToken(token.word, token.lemma, token.ud_pos, ud_dependency,
                                  lefts[l], rights[r])]])

\* the sentences given to the analyzer: "a" with up to MaxChildren right
\* children, each with up to MaxChildren right children, and at most one
\* left child
TreeDependencies == {nmod, nmod_poss, amod}

Leaves ==
    {SimpleToken(w, w, NOUN, d, <<>>, <<>>) : w \in {"y", "z"}, d \in {nmod, amod}}

SeqsUpTo(S, n) == UNION {[1..m -> S] : m \in 0..n}

Modifiers ==
    {SimpleToken("x", "x", NOUN, d, <<>>, rc) : d \in TreeDependencies, rc \in SeqsUpTo(Leaves, MaxChildren)}

LeftChildren ==
    {<<>>,
     <<SimpleToken("the", "the", "DET", <<"det">>, <<>>, <<>>)>>,
     <<SimpleToken("x", "x", NOUN, nmod, <<>>, <<SimpleToken("y", "y", NOUN, nmod, <<>>, <<>>)>>)>>}

Sentences ==
    {SimpleToken("a", "a", NOUN, root, lc, rc) : lc \in LeftChildren, rc \in SeqsUpTo(Modifiers, MaxChildren)}

NoToken == SimpleToken("", "", "", <<>>, <<>>, <<>>)

TreeIdle ==
    /\ sentence = NoToken
    /\ trees = <<>>
    /\ tree_pc = "idle"

TreeInit ==
    /\ sentence \in Sentences
    /\ trees = <<>>
    /\ tree_pc = "_sentence_to_trees"

\* return self._token_with_dependency_to_trees(sentence.root, None)
_sentence_to_trees ==
    /\ tree_pc = "_sentence_to_trees"
    /\ trees' = _token_with_dependency_to_trees(sentence, <<>>)
    /\ tree_pc' = "done"
    /\ UNCHANGED sentence
    /\ UNCHANGED <<qa_vars, req_vars, dis_vars, type_vars, formula_vars,
                   order_vars, kb_vars, fuzzy_vars, pool_vars>>

TreeNext == _sentence_to_trees

words(token) == [k \in 1..Len(subtree(token)) |-> subtree(token)[k].word]

\* the first tree returned is the tree of the parser, with no dependency at
\* its root
FirstTreeHasOriginalShape ==
    tree_pc = "done" =>
        /\ Len(trees) >= 1
        /\ trees[1] = [sentence EXCEPT !.ud_dependency = <<>>]

\* C30: tree reshaping preserves the sentence.  Every tree returned by
\* _token_with_dependency_to_trees has exactly the tokens of the tree of the
\* parser, in the same left-to-right order, and the first tree returned has
\* the shape of the tree of the parser.
C30_ReshapingPreservesSentence ==
    tree_pc = "done" =>
        /\ \A k \in 1..Len(trees) : words(trees[k]) = words(sentence)
        /\ Len(trees) >= 1
        /\ trees[1] = [sentence EXCEPT !.ud_dependency = <<>>]

\* whatever is kept is kept in the order of the sentence: the words of a tree
\* returned are those of the sentence with some left out
RECURSIVE is_subsequence(_, _)
is_subsequence(a, b) ==
    IF a = <<>> THEN TRUE
    ELSE IF b = <<>> THEN FALSE
    ELSE IF Head(a) = Head(b) THEN is_subsequence(Tail(a), Tail(b))
    ELSE is_subsequence(a, Tail(b))

OrderIsKept ==
    tree_pc = "done" =>
        \A k \in 1..Len(trees) : is_subsequence(words(trees[k]), words(sentence))

\* "a x y z", where x is a nominal modifier of a with the modifiers y (nmod)
\* and z (amod): the second tree returned is "a x y"
C30_TokenLost ==
    /\ tree_pc = "done"
    /\ sentence = SimpleToken("a", "a", NOUN, root, <<>>,
                           <<SimpleToken("x", "x", NOUN, nmod, <<>>,
                                         <<SimpleToken("y", "y", NOUN, nmod, <<>>, <<>>),
                                           SimpleToken("z", "z", NOUN, amod, <<>>, <<>>)>>)>>)
    /\ Len(trees) = 2
    /\ words(trees[2]) = <<"a", "x", "y">>



(***************************************************************************)
(* Specifications                                                          *)
(***************************************************************************)
QAStart == QAInit /\ ReqIdle /\ DisIdle /\ TypeIdle /\ FormulaIdle /\ OrderIdle /\ KBIdle
    /\ FuzzyIdle /\ PoolIdle /\ TreeIdle

SpecQA == QAStart /\ [][QANext]_vars

ReqStart == ReqInit /\ QAIdle /\ DisIdle /\ TypeIdle /\ FormulaIdle /\ OrderIdle /\ KBIdle
    /\ FuzzyIdle /\ PoolIdle /\ TreeIdle

SpecReq == ReqStart /\ [][ReqNext]_vars

DisStart == DisInit /\ QAIdle /\ ReqIdle /\ TypeIdle /\ FormulaIdle /\ OrderIdle /\ KBIdle
    /\ FuzzyIdle /\ PoolIdle /\ TreeIdle

SpecDis == DisStart /\ [][DisNext]_vars

TypeStart == TypeInit /\ QAIdle /\ ReqIdle /\ DisIdle /\ FormulaIdle /\ OrderIdle
    /\ KBIdle /\ FuzzyIdle /\ PoolIdle /\ TreeIdle

SpecType == TypeStart /\ [][TypeNext]_vars

FormulaStart == FormulaInit /\ QAIdle /\ ReqIdle /\ DisIdle /\ TypeIdle /\ OrderIdle
    /\ KBIdle /\ FuzzyIdle /\ PoolIdle /\ TreeIdle

SpecFormula == FormulaStart /\ [][FormulaNext]_vars

OrderStart == OrderInit /\ QAIdle /\ ReqIdle /\ DisIdle /\ TypeIdle /\ FormulaIdle
    /\ KBIdle /\ FuzzyIdle /\ PoolIdle /\ TreeIdle

SpecOrder == OrderStart /\ [][OrderNext]_vars

KBStart == KBInit /\ QAIdle /\ ReqIdle /\ DisIdle /\ TypeIdle /\ FormulaIdle /\ OrderIdle
    /\ FuzzyIdle /\ PoolIdle /\ TreeIdle

SpecKB == KBStart /\ [][KBNext]_vars

FuzzyStart == FuzzyInit /\ QAIdle /\ ReqIdle /\ DisIdle /\ TypeIdle /\ FormulaIdle
    /\ OrderIdle /\ KBIdle /\ PoolIdle /\ TreeIdle

SpecFuzzy == FuzzyStart /\ [][FuzzyNext]_vars

PoolStart == PoolInit /\ QAIdle /\ ReqIdle /\ DisIdle /\ TypeIdle /\ FormulaIdle
    /\ OrderIdle /\ KBIdle /\ FuzzyIdle /\ TreeIdle

SpecPool == PoolStart /\ [][PoolNext]_vars

TreeStart == TreeInit /\ QAIdle /\ ReqIdle /\ DisIdle /\ TypeIdle /\ FormulaIdle
    /\ OrderIdle /\ KBIdle /\ FuzzyIdle /\ PoolIdle

SpecTree == TreeStart /\ [][TreeNext]_vars

====
